---- MODULE Spec2Model ----
(***************************************************************************)
(* Extension lifecycle of discord.ext.commands.bot.BotBase: the cog set,   *)
(* the command tree, the listener table, the extension registry and the    *)
(* process-wide module cache (sys.modules), driven by load_extension,      *)
(* unload_extension, reload_extension, add_cog and remove_cog.             *)
(*                                                                         *)
(* Module names are sequences of characters so that _is_submodule is the   *)
(* string test the code performs.  A module object is a record             *)
(* [name, id, src]: id is its identity (one per module_from_spec call) and *)
(* src describes the file found on disk when it was loaded.  Cogs,         *)
(* commands and listeners carry the declaring module's name and the id of  *)
(* the module object whose code created them, so that re-running the same  *)
(* module's setup yields equal ("equivalent") handlers and a newly loaded  *)
(* module yields different ones.                                           *)
(***************************************************************************)
EXTENDS Naturals, Sequences, FiniteSets, TLC

VARIABLES cogs,          \* BotBase.__cogs: cog name -> cog
          all_commands,  \* GroupMixin.all_commands: command name -> command
          extra_events,  \* BotBase.extra_events: event name -> list of listeners
          extensions,    \* BotBase.__extensions: extension name -> module object
          sys_modules,   \* sys.modules restricted to the names of the model
          nextId,        \* identity of the next module object created
          calls,         \* entry points invoked by the last call, in order
          last           \* the last call: operation, arguments, outcome

VARIABLES _checks,            \* BotBase._checks: the global checks, in order
          _check_once,        \* BotBase._check_once: the call-once checks, in order
          command_prefix,     \* BotBase.command_prefix: the prefix source
          strip_after_prefix, \* BotBase.strip_after_prefix
          ctx,                \* the context the last get_context returned, if any
          routed              \* the last routing call: operation, arguments, outcome

vars == <<cogs, all_commands, extra_events, extensions, sys_modules, nextId, calls, last>>

VARIABLES handled,            \* the last error routing: the context's hooks and what ran
          nested,             \* the last nested invocation: the checks each step evaluated
          interaction,        \* the last get_interaction_context call: payload and outcome
          schema              \* a call of a schema function: its arguments, then its result

router == <<_checks, _check_once, command_prefix, strip_after_prefix, ctx, routed>>

records == <<handled, nested, interaction, schema>>

all_vars == <<vars, router, records>>

----------------------------------------------------------------------------
(* Bounds of the model *)

\* Number of module objects that may be created (load and reload calls that
\* reach module_from_spec).
MaxLoads == 2

\* Number of checks registered on the bot (both lists together).
MaxChecks == 2

\* Length of a message's content.
MaxContent == 3

----------------------------------------------------------------------------
(* Names *)

MOD_A   == <<"a">>              \* extension "a"
MOD_A_B == <<"a", ".", "b">>    \* extension "a.b", a dotted sub-module of "a"
MOD_AB  == <<"a", "b">>         \* extension "ab", shares only a string prefix with "a"
MOD_REL == <<".", "a">>         \* relative name ".a", given without a package
MOD_MAIN == <<"m">>             \* the application's own module
MOD_HELP == <<"h">>             \* the module declaring the default help command

ExtNames == {MOD_A, MOD_A_B, MOD_AB}
InputNames == ExtNames \cup {MOD_REL}

NoCog == ""

\* Files the module-loading collaborator may find for a name.  body: whether
\* the module body runs to its end; setup: "none" (no entry point), "ok", or
\* "raises" (raises after `done` of its registration steps); teardown:
\* "none", "ok" or "raises".
\* found: whether find_spec finds a file at all.
MkSource(found, body, setup, done, teardown) ==
    [found |-> found, body |-> body, setup |-> setup, done |-> done, teardown |-> teardown]

Missing == MkSource(FALSE, FALSE, "none", 0, "none")

Sources ==
    {MkSource(TRUE, TRUE, "ok", 0, t) : t \in {"none", "ok", "raises"}}
    \cup {MkSource(TRUE, FALSE, "ok", 0, "ok")}
    \cup {MkSource(TRUE, TRUE, "none", 0, "ok")}
    \cup {MkSource(TRUE, TRUE, "raises", 2, t) : t \in {"ok", "raises"}}
    \cup {Missing}

----------------------------------------------------------------------------
(* Dictionaries: functions with a dynamic domain *)

EmptyDict == [k \in {} |-> k]

DictPut(d, k, v) == [y \in DOMAIN d \cup {k} |-> IF y = k THEN v ELSE d[y]]

DictPop(d, k) == [y \in DOMAIN d \ {k} |-> d[y]]

\* d.update(e)
DictUpdate(d, e) == [y \in DOMAIN d \cup DOMAIN e |-> IF y \in DOMAIN e THEN e[y] ELSE d[y]]

\* list.remove(x): drops the first occurrence (the caller swallows ValueError)
RECURSIVE ListRemove(_, _)
ListRemove(l, x) ==
    IF l = <<>> THEN <<>>
    ELSE IF Head(l) = x THEN Tail(l)
    ELSE <<Head(l)>> \o ListRemove(Tail(l), x)

StartsWith(s, p) == Len(p) <= Len(s) /\ SubSeq(s, 1, Len(p)) = p

_is_submodule_by_prefix(parent, child) == StartsWith(child, parent)

_is_submodule(parent, child) == parent = child \/ StartsWith(child, parent \o <<".">>)

----------------------------------------------------------------------------
(* What a module's code creates.  lib is a module object. *)

CogNameOf(n) == IF n = MOD_A THEN "X" ELSE "Y"
TopCmdOf(n)  == IF n = MOD_A THEN "p" ELSE "q"
CogCmdOf(n)  == IF n = MOD_A THEN "pc" ELSE "qc"

MkCommand(name, module, id, cog, group) ==
    [name |-> name, module |-> module, id |-> id, cog |-> cog, group |-> group]

MkListener(event, module, id, cog) ==
    [event |-> event, module |-> module, id |-> id, cog |-> cog]

\* A cog with one command and one listener (cmd = "" / event = "": none).
MkCog(name, module, id, cmd, event) ==
    [name |-> name, module |-> module, id |-> id, cmd |-> cmd, event |-> event]

LibCog(lib)      == MkCog(CogNameOf(lib.name), lib.name, lib.id, CogCmdOf(lib.name), "on_r")
LibCommand(lib)  == MkCommand(TopCmdOf(lib.name), lib.name, lib.id, NoCog, TRUE)
LibListener(lib) == MkListener("on_m", lib.name, lib.id, NoCog)

\* Cogs the application itself may add with add_cog.
UserCogs == {MkCog("X", MOD_MAIN, 0, "u", "on_m"), MkCog("Y", MOD_MAIN, 0, "p", "")}

HelpCommand == MkCommand("help", MOD_HELP, 0, NoCog, FALSE)

CogCommand(cog)  == MkCommand(cog.cmd, cog.module, cog.id, cog.name, FALSE)
CogListener(cog) == MkListener(cog.event, cog.module, cog.id, cog.name)

----------------------------------------------------------------------------
(* The bot as a value b = [cogs, all_commands, extra_events, extensions,   *)
(* sys_modules, calls]; a call that may raise yields [b, exc], exc = ""    *)
(* when it returns.                                                        *)

Ret(b, exc) == [b |-> b, exc |-> exc]

\* GroupMixin.add_command: sibling names are unique
add_command(b, cmd) ==
    IF cmd.name \in DOMAIN b.all_commands
    THEN Ret(b, "CommandRegistrationError")
    ELSE Ret([b EXCEPT !.all_commands = DictPut(@, cmd.name, cmd)], "")

\* GroupMixin.remove_command
remove_command(b, name) ==
    IF name \in DOMAIN b.all_commands
    THEN [b EXCEPT !.all_commands = DictPop(@, name)]
    ELSE b

add_listener(b, func, name) ==
    IF name \in DOMAIN b.extra_events
    THEN [b EXCEPT !.extra_events[name] = Append(@, func)]
    ELSE [b EXCEPT !.extra_events = DictPut(@, name, <<func>>)]

remove_listener(b, func, name) ==
    IF name \in DOMAIN b.extra_events
    THEN [b EXCEPT !.extra_events[name] = ListRemove(@, func)]
    ELSE b

\* Cog._inject: the cog's commands are merged into the command tree (a name
\* clash raises and leaves nothing behind), then its listeners into the table.
cog_inject_listeners(r, cog) ==
    IF r.exc # "" THEN r
    ELSE IF cog.event = "" THEN r
    ELSE Ret(add_listener(r.b, CogListener(cog), cog.event), "")

cog_inject(b, cog) ==
    cog_inject_listeners(IF cog.cmd = "" THEN Ret(b, "") ELSE add_command(b, CogCommand(cog)), cog)

\* Cog._eject: the symmetric removal
cog_eject_listeners(b, cog) ==
    IF cog.event = "" THEN b ELSE remove_listener(b, CogListener(cog), cog.event)

cog_eject(b, cog) ==
    cog_eject_listeners(IF cog.cmd = "" THEN b ELSE remove_command(b, cog.cmd), cog)

\* self._help_command.cog is never set by the operations modelled here, so
\* the help command is left alone.
remove_cog(b, name) ==
    IF name \notin DOMAIN b.cogs THEN b
    ELSE cog_eject([b EXCEPT !.cogs = DictPop(@, name)], b.cogs[name])

\* self.__cogs[cog_name] = cog, once _inject has returned
add_cog_register(r, cog) ==
    IF r.exc # "" THEN r
    ELSE Ret([r.b EXCEPT !.cogs = DictPut(@, cog.name, cog)], "")

add_cog_keep_existing(b, cog, override) ==
    IF cog.name \in DOMAIN b.cogs /\ ~override
    THEN Ret(b, "ClientException")
    ELSE add_cog_register(cog_inject(b, cog), cog)

add_cog(b, cog, override) ==
    IF cog.name \in DOMAIN b.cogs /\ ~override
    THEN Ret(b, "ClientException")
    ELSE add_cog_register(cog_inject(remove_cog(b, cog.name), cog), cog)

----------------------------------------------------------------------------
(* Extensions *)

Range(d) == {d[k] : k \in DOMAIN d}

\* The artifacts of the bot whose declaring module is `name` or one of its
\* sub-modules.
Owned(b, name) ==
    [cogs |-> {c \in Range(b.cogs) : _is_submodule(name, c.module)},
     cmds |-> {c \in Range(b.all_commands) : _is_submodule(name, c.module)},
     lsn  |-> UNION {{b.extra_events[e][i] : i \in {j \in DOMAIN b.extra_events[e] :
                          _is_submodule(name, b.extra_events[e][j].module)}} :
                     e \in DOMAIN b.extra_events}]

NoneOwned == [cogs |-> {}, cmds |-> {}, lsn |-> {}]

\* What an entry point sees of the bot when it is invoked.
Observed(b, lib, key) ==
    [registered |-> key \in DOMAIN b.extensions,
     cached     |-> DOMAIN b.sys_modules,
     owned      |-> Owned(b, lib.name)]

\* made: the artifacts of the module in the bot when the entry point is left.
Invoked(b, fn, lib, key, raised) ==
    [b EXCEPT !.calls = Append(@, [fn |-> fn, id |-> lib.id, raised |-> raised,
                                   seen |-> Observed(b, lib, key),
                                   made |-> Owned(b, lib.name)])]

\* for cogname, cog in self.__cogs.copy().items(): ... self.remove_cog(cogname)
RECURSIVE RemoveCogsOf(_, _, _)
RemoveCogsOf(b, name, todo) ==
    IF todo = {} THEN b
    ELSE LET cn == CHOOSE c \in todo : TRUE
         IN  RemoveCogsOf(remove_cog(b, cn), name, todo \ {cn})

\* for cmd in self.all_commands.copy().values(): ... self.remove_command(cmd.name)
\* (a group's children leave the tree with the group)
RECURSIVE RemoveCommandsOf(_, _, _)
RemoveCommandsOf(b, name, todo) ==
    IF todo = {} THEN b
    ELSE LET cmd == CHOOSE c \in todo : TRUE
         IN  RemoveCommandsOf(remove_command(b, cmd.name), name, todo \ {cmd})

\* del event_list[index]
DelAt(l, i) == SubSeq(l, 1, i - 1) \o SubSeq(l, i + 1, Len(l))

\* for index in reversed(remove): del event_list[index]
RECURSIVE DelReversed(_, _)
DelReversed(l, remove) ==
    IF remove = <<>> THEN l
    ELSE DelReversed(DelAt(l, remove[Len(remove)]), SubSeq(remove, 1, Len(remove) - 1))

\* the indices, ascending, of the listeners declared by `name` or a sub-module
RECURSIVE IndicesOf(_, _, _)
IndicesOf(l, name, i) ==
    IF i > Len(l) THEN <<>>
    ELSE (IF _is_submodule(name, l[i].module) THEN <<i>> ELSE <<>>) \o IndicesOf(l, name, i + 1)

StripListeners(l, name) == DelReversed(l, IndicesOf(l, name, 1))

strip_cogs(b, name) ==
    RemoveCogsOf(b, name, {cn \in DOMAIN b.cogs : _is_submodule(name, b.cogs[cn].module)})

strip_commands(b, name) ==
    RemoveCommandsOf(b, name, {c \in Range(b.all_commands) : _is_submodule(name, c.module)})

strip_listeners(b, name) ==
    [b EXCEPT !.extra_events = [e \in DOMAIN @ |-> StripListeners(@[e], name)]]

_remove_module_references_keep_listeners(b, name) ==
    strip_commands(strip_cogs(b, name), name)

_remove_module_references(b, name) ==
    strip_listeners(strip_commands(strip_cogs(b, name), name), name)

\* sys.modules without `key` and without every sub-module of `name`
Purge(mods, key, name) ==
    LET m1 == DictPop(mods, key)
    IN  [k \in {x \in DOMAIN m1 : ~_is_submodule(name, x)} |-> m1[k]]

\* func(self) for func = lib.teardown, if the module defines it; what it
\* raises is swallowed
call_teardown(b, lib, key) ==
    IF lib.src.teardown = "none" THEN b
    ELSE Invoked(b, "teardown", lib, key, lib.src.teardown = "raises")

finalize_keep_registered(b, lib, key) ==
    [b EXCEPT !.sys_modules = Purge(@, key, lib.name)]

\* the finally clause
finalize(b, lib, key) ==
    [b EXCEPT !.extensions = DictPop(@, key),
              !.sys_modules = Purge(@, key, lib.name)]

_call_module_finalizers_teardown_last(b, lib, key) ==
    call_teardown(finalize(b, lib, key), lib, key)

_call_module_finalizers(b, lib, key) ==
    finalize(call_teardown(b, lib, key), lib, key)

\* The registrations a module's setup(bot) performs, in order.
SetupProgram(lib) ==
    <<[op |-> "add_listener", listener |-> LibListener(lib)],
      [op |-> "add_cog", cog |-> LibCog(lib)],
      [op |-> "add_command", command |-> LibCommand(lib)]>>

SetupStep(b, step) ==
    IF step.op = "add_listener" THEN Ret(add_listener(b, step.listener, step.listener.event), "")
    ELSE IF step.op = "add_cog" THEN add_cog(b, step.cog, FALSE)
    ELSE add_command(b, step.command)

RECURSIVE SetupSteps(_, _, _)
SetupNext(r, lib, i) ==
    IF r.exc # "" THEN r ELSE SetupSteps(r.b, lib, i + 1)

SetupSteps(b, lib, i) ==
    IF lib.src.setup = "raises" /\ i > lib.src.done THEN Ret(b, "SetupError")
    ELSE IF i > Len(SetupProgram(lib)) THEN Ret(b, "")
    ELSE SetupNext(SetupStep(b, SetupProgram(lib)[i]), lib, i)

\* The call is logged with what the bot looked like when it was made.
SetupInvoked(r, seen, lib) ==
    Ret([r.b EXCEPT !.calls = Append(@, [fn |-> "setup", id |-> lib.id,
                                         raised |-> r.exc # "", seen |-> seen,
                                         made |-> Owned(r.b, lib.name)])], r.exc)

\* lib.setup(bot)
setup(b, lib, key) == SetupInvoked(SetupSteps(b, lib, 1), Observed(b, lib, key), lib)

MkLib(key, id, src) == [name |-> key, id |-> id, src |-> src]

\* the try/except/else around setup(self)
load_after_setup_no_strip(r, lib, key) ==
    IF r.exc # ""
    THEN Ret(_call_module_finalizers([r.b EXCEPT !.sys_modules = DictPop(@, key)], lib, key),
             "ExtensionFailed")
    ELSE Ret([r.b EXCEPT !.extensions = DictPut(@, key, lib)], "")

load_after_setup_teardown_first(r, lib, key) ==
    IF r.exc # ""
    THEN Ret(_remove_module_references(
                 _call_module_finalizers([r.b EXCEPT !.sys_modules = DictPop(@, key)], lib, key),
                 lib.name),
             "ExtensionFailed")
    ELSE Ret([r.b EXCEPT !.extensions = DictPut(@, key, lib)], "")

load_after_setup(r, lib, key) ==
    IF r.exc # ""
    THEN Ret(_call_module_finalizers(
                 _remove_module_references([r.b EXCEPT !.sys_modules = DictPop(@, key)],
                                           lib.name), lib, key),
             "ExtensionFailed")
    ELSE Ret([r.b EXCEPT !.extensions = DictPut(@, key, lib)], "")

\* sys.modules[key] = lib, then the module body and the entry point lookup
load_module_keep_cache(b, lib, key) ==
    IF ~lib.src.body
    THEN Ret([b EXCEPT !.sys_modules = DictPut(@, key, lib)], "ExtensionFailed")
    ELSE IF lib.src.setup = "none"
    THEN Ret([b EXCEPT !.sys_modules = DictPut(@, key, lib)], "NoEntryPointError")
    ELSE load_after_setup(setup([b EXCEPT !.sys_modules = DictPut(@, key, lib)], lib, key),
                          lib, key)

\* (del sys.modules[key] after sys.modules[key] = lib leaves no entry for key)
load_module(b, lib, key) ==
    IF ~lib.src.body
    THEN Ret([b EXCEPT !.sys_modules = DictPop(DictPut(@, key, lib), key)], "ExtensionFailed")
    ELSE IF lib.src.setup = "none"
    THEN Ret([b EXCEPT !.sys_modules = DictPop(DictPut(@, key, lib), key)], "NoEntryPointError")
    ELSE load_after_setup(setup([b EXCEPT !.sys_modules = DictPut(@, key, lib)], lib, key),
                          lib, key)

_load_from_module_spec(b, src, key, id) == load_module(b, MkLib(key, id, src), key)

\* importlib.util.resolve_name(name, None): a relative name cannot be resolved
IsRelative(name) == name # <<>> /\ name[1] = "."

\* src is the file find_spec finds for the name now; id the identity the
\* module object gets if one is created.
load_extension_no_check(b, name, src, id) ==
    IF IsRelative(name) THEN Ret(b, "ExtensionNotFound")
    ELSE IF ~src.found THEN Ret(b, "ExtensionNotFound")
    ELSE _load_from_module_spec(b, src, name, id)

load_extension(b, name, src, id) ==
    IF IsRelative(name) THEN Ret(b, "ExtensionNotFound")
    ELSE IF name \in DOMAIN b.extensions THEN Ret(b, "ExtensionAlreadyLoaded")
    ELSE IF ~src.found THEN Ret(b, "ExtensionNotFound")
    ELSE _load_from_module_spec(b, src, name, id)

unload_extension(b, name) ==
    IF IsRelative(name) THEN Ret(b, "ExtensionNotFound")
    ELSE IF name \notin DOMAIN b.extensions THEN Ret(b, "ExtensionNotLoaded")
    ELSE Ret(_call_module_finalizers(_remove_module_references(b, b.extensions[name].name),
                                     b.extensions[name], name), "")

\* The result also carries loadExc, the failure of the unload/load sequence
\* ("" if it succeeded); exc is what the caller sees.
RetReload(b, exc, loadExc) == [b |-> b, exc |-> exc, loadExc |-> loadExc]

\* modules: the snapshot {name: module for name, module in sys.modules.items()
\*                        if _is_submodule(lib.__name__, name)}
ModulesOf(b, lib) ==
    [k \in {x \in DOMAIN b.sys_modules : _is_submodule(lib.name, x)} |-> b.sys_modules[k]]

\* the except clause, after lib.setup(self)
reload_restore(rs, loadExc, lib, name, modules) ==
    IF rs.exc # "" THEN RetReload(rs.b, rs.exc, loadExc)
    ELSE RetReload([rs.b EXCEPT !.extensions = DictPut(@, name, lib),
                                !.sys_modules = DictUpdate(@, modules)],
                   loadExc, loadExc)

\* r: how the unload/load sequence ended
reload_finish(r, lib, name, modules) ==
    IF r.exc = "" THEN RetReload(r.b, "", "")
    ELSE reload_restore(setup(r.b, lib, name), r.exc, lib, name, modules)

reload_with_no_teardown(b, lib, name, src, id) ==
    reload_finish(load_extension(finalize(_remove_module_references(b, lib.name), lib, name),
                                 name, src, id),
                  lib, name, ModulesOf(b, lib))

reload_with(b, lib, name, src, id) ==
    reload_finish(load_extension(_call_module_finalizers(
                                     _remove_module_references(b, lib.name), lib, name),
                                 name, src, id),
                  lib, name, ModulesOf(b, lib))

reload_extension(b, name, src, id) ==
    IF IsRelative(name) THEN RetReload(b, "ExtensionNotFound", "")
    ELSE IF name \notin DOMAIN b.extensions THEN RetReload(b, "ExtensionNotLoaded", "")
    ELSE reload_with(b, b.extensions[name], name, src, id)

----------------------------------------------------------------------------
(* Closing.  tuple(self.__extensions) and tuple(self.__cogs) are taken in    *)
(* the order the dictionaries hold their keys: a sequence of the keys.       *)

\* await super().close(): the client's own close, logged with the
\* registered extensions and cogs it finds
client_close(b) ==
    [b EXCEPT !.calls = Append(@, [fn |-> "Client.close", extensions |-> DOMAIN b.extensions,
                                   cogs |-> DOMAIN b.cogs])]

\* lines 405-409: what unload_extension raises is discarded
RECURSIVE close_extensions(_, _)
close_extensions(b, names) ==
    IF names = <<>> THEN b
    ELSE close_extensions(unload_extension(b, Head(names)).b, Tail(names))

\* lines 411-415
RECURSIVE close_cogs(_, _)
close_cogs(b, names) ==
    IF names = <<>> THEN b
    ELSE close_cogs(remove_cog(b, Head(names)), Tail(names))

close_extensions_only(b, extension_names, cog_names) ==
    client_close(close_extensions(b, extension_names))

close(b, extension_names, cog_names) ==
    client_close(close_cogs(close_extensions(b, extension_names), cog_names))

----------------------------------------------------------------------------
(* Global checks.  A check function is named by what it does when called    *)
(* with a context: returns true, returns false, raises a CommandError,      *)
(* raises TypeError, raises a fault that is no CommandError.                *)

Checks == {"yes", "no", "cmderr", "typeerr", "fault"}

\* The lists of at most n checks
CheckLists(n) == UNION {[1..m -> Checks] : m \in 0..n}

\* k = [checks, check_once]: the two lists of the bot
add_check(k, func, call_once) ==
    IF call_once
    THEN [k EXCEPT !.check_once = Append(@, func)]
    ELSE [k EXCEPT !.checks = Append(@, func)]

remove_check_from_global(k, func, call_once) ==
    [k EXCEPT !.checks = ListRemove(@, func)]

remove_check(k, func, call_once) ==
    IF call_once
    THEN [k EXCEPT !.check_once = ListRemove(@, func)]
    ELSE [k EXCEPT !.checks = ListRemove(@, func)]

----------------------------------------------------------------------------
(* Prefix resolution and context construction.  Strings are sequences of    *)
(* characters; an optional value is the empty set (None) or a singleton.    *)

None == {}
Some(x) == {x}

Chars == {"!", "p", " "}

Strings(n) == UNION {[1..m -> Chars] : m \in 0..n}

Contents == Strings(MaxContent)

\* A prefix source: a string, an iterable of strings, or something that is
\* neither; given as such or returned by a callable.
MkPrefix(callable, kind, v) == [callable |-> callable, kind |-> kind, v |-> v]

PrefixValues ==
    {<<"str", <<>> >>, <<"str", <<"!">> >>,
     <<"list", <<>> >>, <<"list", << <<"!">>, <<"!", "!">> >> >>,
     <<"list", << <<"!", "!">>, <<"!">> >> >>, <<"list", << <<>>, <<"!">> >> >>,
     <<"other", <<>> >>}

\* What the prefix functions of the model return.
ComputedValues ==
    {<<"str", <<"!">> >>, <<"list", <<>> >>, <<"list", << <<"!">>, <<"!", "!">> >> >>}

PrefixSources ==
    {MkPrefix(FALSE, pv[1], pv[2]) : pv \in PrefixValues}
    \cup {MkPrefix(TRUE, pv[1], pv[2]) : pv \in ComputedValues}

\* Messages: the content and whether the author is the bot's own user.
Messages == [content : Contents, mine : BOOLEAN]

\* get_prefix: val is the string or the list returned; called tells whether
\* a prefix function was called.
PrefixResult(exc, kind, v, called) == [exc |-> exc, kind |-> kind, v |-> v, called |-> called]

get_prefix_accept_empty(prefix, message) ==
    IF prefix.kind = "other" THEN PrefixResult("TypeError", "other", <<>>, prefix.callable)
    ELSE PrefixResult("", prefix.kind, prefix.v, prefix.callable)

get_prefix(prefix, message) ==
    IF prefix.kind = "str" THEN PrefixResult("", "str", prefix.v, prefix.callable)
    ELSE IF prefix.kind = "other" THEN PrefixResult("TypeError", "other", <<>>, prefix.callable)
    ELSE IF Len(prefix.v) = 0 THEN PrefixResult("ValueError", "list", <<>>, prefix.callable)
    ELSE PrefixResult("", "list", prefix.v, prefix.callable)

\* StringView: the buffer and the number of characters consumed
StringView(buffer) == [buffer |-> buffer, index |-> 0]

Matches(view, string) ==
    /\ view.index + Len(string) <= Len(view.buffer)
    /\ SubSeq(view.buffer, view.index + 1, view.index + Len(string)) = string

\* StringView.skip_string, once it has returned true
Skipped(view, string) == [view EXCEPT !.index = @ + Len(string)]

RECURSIVE skip_ws(_)
skip_ws(view) ==
    IF view.index < Len(view.buffer) /\ view.buffer[view.index + 1] = " "
    THEN skip_ws([view EXCEPT !.index = @ + 1])
    ELSE view

RECURSIVE WordEnd(_, _)
WordEnd(buffer, i) ==
    IF i < Len(buffer) /\ buffer[i + 1] # " " THEN WordEnd(buffer, i + 1) ELSE i

get_word(view) == SubSeq(view.buffer, view.index + 1, WordEnd(view.buffer, view.index))

\* discord.utils.find(view.skip_string, prefix): the first entry the view
\* starts with
RECURSIVE find(_, _, _)
find(view, prefix, i) ==
    IF i > Len(prefix) THEN None
    ELSE IF Matches(view, prefix[i]) THEN Some(prefix[i])
    ELSE find(view, prefix, i + 1)

\* message.content.startswith(tuple(prefix))
startswith(content, prefix) == \E i \in DOMAIN prefix : StartsWith(content, prefix[i])

\* Context: prefix, invoked_with and command are optional; a context built
\* from a message is of the text invocation type.  mine: of ctx.message,
\* whether the bot wrote it.
Context(message, prefix, invoked_with, command) ==
    [mine |-> message.mine, prefix |-> prefix, invoked_with |-> invoked_with,
     command |-> command, command_type |-> "default"]

\* self.all_commands.get(invoker)
Lookup(commands, invoker) ==
    IF invoker \in DOMAIN commands THEN Some(commands[invoker]) ELSE None

\* What get_context yields: the context returned (none if it raised), the
\* exception, whether get_prefix was entered and whether a prefix function
\* was called.
ContextResult(exc, c, resolved, called) ==
    [exc |-> exc, ctx |-> c, resolved |-> resolved, called |-> called]

context_tokenize_prefix_only(b, view, invoked_prefix, called) ==
    ContextResult("", Some(Context(b.message, Some(invoked_prefix), None,
                                   Lookup(b.all_commands, get_word(view)))), TRUE, called)

\* lines 1232-1240, view is past the prefix
context_tokenize(b, view, invoked_prefix, called) ==
    ContextResult("", Some(Context(b.message, Some(invoked_prefix), Some(get_word(view)),
                                   Lookup(b.all_commands, get_word(view)))), TRUE, called)

context_after_prefix(b, view, invoked_prefix, called) ==
    context_tokenize(b, IF b.strip_after_prefix THEN skip_ws(Skipped(view, invoked_prefix))
                        ELSE Skipped(view, invoked_prefix), invoked_prefix, called)

\* the longest entry the view starts with
Longest(view, prefix) ==
    CHOOSE x \in {prefix[i] : i \in {j \in DOMAIN prefix : Matches(view, prefix[j])}} :
        \A i \in DOMAIN prefix : Matches(view, prefix[i]) => Len(prefix[i]) <= Len(x)

context_with_prefix_longest(b, view, r) ==
    IF r.exc # "" THEN ContextResult(r.exc, None, TRUE, r.called)
    ELSE IF r.kind = "str"
    THEN (IF Matches(view, r.v) THEN context_after_prefix(b, view, r.v, r.called)
          ELSE ContextResult("", Some(Context(b.message, None, None, None)), TRUE, r.called))
    ELSE IF startswith(view.buffer, r.v)
    THEN context_after_prefix(b, view, Longest(view, r.v), r.called)
    ELSE ContextResult("", Some(Context(b.message, None, None, None)), TRUE, r.called)

\* lines 1200-1230, r is what get_prefix returned or raised
context_with_prefix(b, view, r) ==
    IF r.exc # "" THEN ContextResult(r.exc, None, TRUE, r.called)
    ELSE IF r.kind = "str"
    THEN (IF Matches(view, r.v) THEN context_after_prefix(b, view, r.v, r.called)
          ELSE ContextResult("", Some(Context(b.message, None, None, None)), TRUE, r.called))
    ELSE IF startswith(view.buffer, r.v)
    THEN context_after_prefix(b, view, CHOOSE x \in find(view, r.v, 1) : TRUE, r.called)
    ELSE ContextResult("", Some(Context(b.message, None, None, None)), TRUE, r.called)

\* b: the bot and the message
Received(b, message) ==
    [all_commands |-> b.all_commands, command_prefix |-> b.command_prefix,
     strip_after_prefix |-> b.strip_after_prefix, message |-> message]

get_context_no_self_test(b, message) ==
    context_with_prefix(Received(b, message), StringView(message.content),
                        get_prefix(b.command_prefix, message))

get_context(b, message) ==
    IF message.mine THEN ContextResult("", Some(Context(message, None, None, None)), FALSE, FALSE)
    ELSE context_with_prefix(Received(b, message), StringView(message.content),
                             get_prefix(b.command_prefix, message))

----------------------------------------------------------------------------
(* Invocation.  Events are logged in the order they are dispatched; the     *)
(* call of the command's dispatch_error is logged as "dispatch_error".      *)

\* Commands of the root tree while messages are routed: "p" may be invoked
\* from text, "pp" only as a slash command.
CMD_P  == <<"p">>
CMD_PP == <<"p", "p">>

RoutedCommands ==
    DictPut(DictPut(EmptyDict, CMD_P, MkCommand(CMD_P, MOD_MAIN, 0, NoCog, FALSE)),
            CMD_PP, MkCommand(CMD_PP, MOD_MAIN, 0, NoCog, FALSE))

\* command.type: the invocation types of a command
TypesOf(command) == IF command.name = CMD_PP THEN {"chat_input"} ELSE {"default"}

\* What a call of ctx.command.invoke(ctx) may do: return, raise a
\* CommandError, raise TypeError, raise a fault that is no CommandError.
Outcomes == {"", "CommandError", "TypeError", "Fault"}

\* errors.CommandError and its subclasses
CommandErrors == {"CommandError", "CheckFailure", "CommandNotFound"}

Raises(func) ==
    IF func = "cmderr" THEN "CommandError"
    ELSE IF func = "typeerr" THEN "TypeError"
    ELSE IF func = "fault" THEN "Fault"
    ELSE ""

Event(name, error) == [event |-> name, error |-> error]

\* exc: what is raised; ok: what is returned; evaluated: the checks called
Ran(exc, ok, evaluated) == [exc |-> exc, ok |-> ok, evaluated |-> evaluated]

\* discord.utils.async_all(f(ctx) for f in data): the first check that
\* returns false or raises ends the evaluation
RECURSIVE async_all(_, _, _)
async_all(data, i, evaluated) ==
    IF i > Len(data) THEN Ran("", TRUE, evaluated)
    ELSE IF data[i] = "yes" THEN async_all(data, i + 1, Append(evaluated, data[i]))
    ELSE Ran(Raises(data[i]), FALSE, Append(evaluated, data[i]))

can_run_any_type(k, c, command, call_once) ==
    IF Len(IF call_once THEN k.check_once ELSE k.checks) = 0 THEN Ran("", TRUE, <<>>)
    ELSE async_all(IF call_once THEN k.check_once ELSE k.checks, 1, <<>>)

can_run_global_list(k, c, command, call_once) ==
    IF c.command_type \notin TypesOf(command) THEN Ran("TypeError", FALSE, <<>>)
    ELSE IF Len(k.checks) = 0 THEN Ran("", TRUE, <<>>)
    ELSE async_all(k.checks, 1, <<>>)

can_run(k, c, command, call_once) ==
    IF c.command_type \notin TypesOf(command) THEN Ran("TypeError", FALSE, <<>>)
    ELSE IF Len(IF call_once THEN k.check_once ELSE k.checks) = 0 THEN Ran("", TRUE, <<>>)
    ELSE async_all(IF call_once THEN k.check_once ELSE k.checks, 1, <<>>)

\* What invoke does: exc is raised to the caller, events are dispatched,
\* evaluated are the call-once checks called, invoked tells whether the
\* command's own pipeline was entered.
Invocation(exc, events, evaluated, invoked) ==
    [exc |-> exc, events |-> events, evaluated |-> evaluated, invoked |-> invoked]

invoke_try_whatever_checks_say(r, outcome) ==
    IF r.exc # "" THEN Invocation(r.exc, <<>>, r.evaluated, FALSE)
    ELSE Invocation(outcome, <<Event("command", "")>>, r.evaluated, TRUE)

\* lines 1297-1302: the body of the try statement
invoke_try(r, outcome) ==
    IF r.exc # "" THEN Invocation(r.exc, <<>>, r.evaluated, FALSE)
    ELSE IF r.ok THEN Invocation(outcome, <<Event("command", "")>>, r.evaluated, TRUE)
    ELSE Invocation("CheckFailure", <<Event("command", "")>>, r.evaluated, FALSE)

\* lines 1303-1309: the except and else clauses
invoke_except(t) ==
    IF t.exc = ""
    THEN [t EXCEPT !.events = Append(@, Event("command_completion", ""))]
    ELSE IF t.exc \in CommandErrors
    THEN [t EXCEPT !.exc = "",
                   !.events = @ \o <<Event("command", ""), Event("dispatch_error", t.exc)>>]
    ELSE IF t.exc = "TypeError" THEN [t EXCEPT !.exc = ""]
    ELSE t

invoke_any_unresolved(k, c, outcome) ==
    IF c.command # None
    THEN invoke_except(invoke_try(can_run(k, c, CHOOSE x \in c.command : TRUE, TRUE), outcome))
    ELSE Invocation("", <<Event("command_error", "CommandNotFound")>>, <<>>, FALSE)

invoke(k, c, outcome) ==
    IF c.command # None
    THEN invoke_except(invoke_try(can_run(k, c, CHOOSE x \in c.command : TRUE, TRUE), outcome))
    ELSE IF c.invoked_with # None /\ c.invoked_with # Some(<<>>)
    THEN Invocation("", <<Event("command_error", "CommandNotFound")>>, <<>>, FALSE)
    ELSE Invocation("", <<>>, <<>>, FALSE)

----------------------------------------------------------------------------
(* Error routing.  The command of a context, and the cog of that command,   *)
(* is absent ("none"), defines no error hook ("plain") or defines one       *)
(* ("hook").                                                                *)

Hooks == {"none", "plain", "hook"}

\* context.command and context.cog as the error handlers read them
Failing(c, command_hook, cog) ==
    IF c.command = None THEN [command |-> "none", cog |-> "none"]
    ELSE [command |-> IF command_hook THEN "hook" ELSE "plain", cog |-> cog]

\* "on_" + event_name
On(event_name) ==
    IF event_name = "command_error" THEN "on_command_error"
    ELSE IF event_name = "command_completion" THEN "on_command_completion"
    ELSE "on_command"

on_command_error_listeners_only(b, context, exception) ==
    IF "on_command_error" \in DOMAIN b.extra_events /\ b.extra_events["on_command_error"] # <<>>
    THEN <<>>
    ELSE <<Event("print", exception)>>

on_command_error_key_present(b, context, exception) ==
    IF "on_command_error" \in DOMAIN b.extra_events THEN <<>>
    ELSE IF context.command = "hook" THEN <<>>
    ELSE IF context.cog = "hook" THEN <<>>
    ELSE <<Event("print", exception)>>

\* The default handler; the result is what it prints.
on_command_error(b, context, exception) ==
    IF "on_command_error" \in DOMAIN b.extra_events /\ b.extra_events["on_command_error"] # <<>>
    THEN <<>>
    ELSE IF context.command = "hook" THEN <<>>
    ELSE IF context.cog = "hook" THEN <<>>
    ELSE <<Event("print", exception)>>

\* Client.dispatch: the bot's own method on_<event_name> runs
client_dispatch(b, event_name, context, exception) ==
    IF event_name = "command_error" THEN on_command_error(b, context, exception) ELSE <<>>

\* self.extra_events.get(ev, []): every listener is scheduled, in order
scheduled(b, ev, exception) ==
    IF ev \in DOMAIN b.extra_events
    THEN [i \in DOMAIN b.extra_events[ev] |-> Event("listener", exception)]
    ELSE <<>>

dispatch(b, event_name, context, exception) ==
    client_dispatch(b, event_name, context, exception) \o scheduled(b, On(event_name), exception)

\* Command.dispatch_error: the command's hook if it has one, else the hook
\* of its cog if that has one; then the command-error event
dispatch_error(b, context, error) ==
    (IF context.command = "hook" THEN <<Event("command_hook", error)>>
     ELSE IF context.cog = "hook" THEN <<Event("cog_hook", error)>>
     ELSE <<>>) \o dispatch(b, "command_error", context, error)

\* What the dispatches and the dispatch_error call of an invoke run, in order
RECURSIVE route(_, _, _, _)
route(b, context, events, i) ==
    IF i > Len(events) THEN <<>>
    ELSE (IF events[i].event = "dispatch_error"
          THEN dispatch_error(b, context, events[i].error)
          ELSE dispatch(b, events[i].event, context, events[i].error))
         \o route(b, context, events, i + 1)

----------------------------------------------------------------------------
(* Nested invocation.  The pipeline of a command that resolves through      *)
(* `levels` tree levels (a group, its sub-group, the leaf) prepares every   *)
(* level in turn; preparing a level evaluates the global checks with        *)
(* bot.can_run(ctx).  body: what the handler of the last level does.        *)

\* exc: what the pipeline raises; checked: per level entered, the checks it
\* evaluated
Prepared(exc, checked) == [exc |-> exc, checked |-> checked]

RECURSIVE pipeline(_, _, _, _, _, _)
pipeline_level(r, k, c, command, levels, body, checked) ==
    IF r.exc # "" THEN Prepared(r.exc, Append(checked, r.evaluated))
    ELSE IF ~r.ok THEN Prepared("CheckFailure", Append(checked, r.evaluated))
    ELSE pipeline(k, c, command, levels - 1, body, Append(checked, r.evaluated))

pipeline(k, c, command, levels, body, checked) ==
    IF levels = 0 THEN Prepared(body, checked)
    ELSE pipeline_level(can_run(k, c, command, FALSE), k, c, command, levels, body, checked)

----------------------------------------------------------------------------
(* Interactions.  interaction.data and its option records are dictionaries: *)
(* records whose key "options" may be absent.  A record of type 1 is a      *)
(* sub-command, of type 2 a sub-command group; an argument has another type. *)

\* A node of the command tree: a group carries the table of its children.
MkTree(name, id, group, commands) ==
    [name |-> name, module |-> MOD_MAIN, id |-> id, cog |-> NoCog, group |-> group,
     all_commands |-> commands]

\* The group "r" with the sub-command "s" and the sub-group "g", which has
\* its own sub-command "s"; the plain command "c".
Tree ==
    DictPut(DictPut(EmptyDict, "c", MkTree("c", 1, FALSE, EmptyDict)),
            "r", MkTree("r", 2, TRUE,
                        DictPut(DictPut(EmptyDict, "s", MkTree("s", 3, FALSE, EmptyDict)),
                                "g", MkTree("g", 4, TRUE,
                                            DictPut(EmptyDict, "s", MkTree("s", 5, FALSE, EmptyDict))))))

\* The context get_interaction_context constructs.
InteractionContext(command, invoked_with, invoked_parents, options) ==
    [command |-> command, prefix |-> "/", invoked_with |-> invoked_with,
     invoked_parents |-> invoked_parents, options |-> options, command_type |-> "chat_input"]

\* exc: what is raised; key: the name a KeyError reports
Resolution(exc, key, c) == [exc |-> exc, key |-> key, ctx |-> c]

\* The local variables of get_interaction_context
Locals(invoked_with, command, invoked_parents, data) ==
    [invoked_with |-> invoked_with, command |-> command, invoked_parents |-> invoked_parents,
     data |-> data]

\* d.get("options", [])
GetOptions(d) == IF "options" \in DOMAIN d THEN d.options ELSE <<>>

\* lines 1255-1261: the while loop inside the try statement; a KeyError or
\* IndexError ends it, the AttributeError of a command that has no table of
\* children leaves the function
RECURSIVE descend(_)
descend(st) ==
    IF "options" \notin DOMAIN st.data THEN [st |-> st, exc |-> ""]
    ELSE IF Len(st.data.options) = 0 THEN [st |-> st, exc |-> ""]
    ELSE IF st.data.options[1].type \notin {1, 2} THEN [st |-> st, exc |-> ""]
    ELSE IF ~st.command.group THEN [st |-> st, exc |-> "AttributeError"]
    ELSE IF st.data.name \notin DOMAIN st.command.all_commands
    THEN [st |-> Locals(st.data.name, st.command, Append(st.invoked_parents, st.invoked_with),
                        st.data),
          exc |-> ""]
    ELSE descend(Locals(st.data.name, st.command.all_commands[st.data.name],
                        Append(st.invoked_parents, st.invoked_with), st.data.options[1]))

resolve_leaf_top_options(r, data) ==
    IF r.exc # "" THEN Resolution(r.exc, "", None)
    ELSE IF r.st.command.group
    THEN IF r.st.data.name \notin DOMAIN r.st.command.all_commands
         THEN Resolution("KeyError", r.st.data.name, None)
         ELSE Resolution("", "",
                  Some(InteractionContext(r.st.command.all_commands[r.st.data.name],
                                          r.st.data.name,
                                          r.st.invoked_parents \o <<r.st.invoked_with, r.st.data.name>>,
                                          GetOptions(data))))
    ELSE Resolution("", "", Some(InteractionContext(r.st.command, r.st.invoked_with,
                                                    r.st.invoked_parents, GetOptions(data))))

\* lines 1262-1269
resolve_leaf(r, data) ==
    IF r.exc # "" THEN Resolution(r.exc, "", None)
    ELSE IF r.st.command.group
    THEN IF r.st.data.name \notin DOMAIN r.st.command.all_commands
         THEN Resolution("KeyError", r.st.data.name, None)
         ELSE Resolution("", "",
                  Some(InteractionContext(r.st.command.all_commands[r.st.data.name],
                                          r.st.data.name,
                                          r.st.invoked_parents \o <<r.st.invoked_with, r.st.data.name>>,
                                          GetOptions(r.st.data))))
    ELSE Resolution("", "", Some(InteractionContext(r.st.command, r.st.invoked_with,
                                                    r.st.invoked_parents, GetOptions(data))))

get_interaction_context(b, data) ==
    IF data.name \notin DOMAIN b.all_commands THEN Resolution("KeyError", data.name, None)
    ELSE IF "options" \notin DOMAIN data
    THEN Resolution("", "", Some(InteractionContext(b.all_commands[data.name], data.name, <<>>, <<>>)))
    ELSE IF Len(data.options) = 0 THEN Resolution("IndexError", "", None)
    ELSE resolve_leaf(descend(Locals(data.name, b.all_commands[data.name], <<>>, data.options[1])),
                      data)

----------------------------------------------------------------------------
(* Schema conversion.  An annotation is absent (Empty), a plain type, a     *)
(* Literal of values or a Union of annotations.  A literal value is a       *)
(* string (text: a sequence of characters), an integer (num) or a float     *)
(* with one decimal digit (num.tenth).                                      *)

Empty == [origin |-> "empty"]
Plain(type) == [origin |-> "", type |-> type]
LiteralOf(args) == [origin |-> "Literal", args |-> args]
UnionOf(args) == [origin |-> "Union", args |-> args]

NoneType == Plain("NoneType")

StrValue(text) == [kind |-> "str", text |-> text, num |-> 0, tenth |-> 0]
IntValue(num) == [kind |-> "int", text |-> <<>>, num |-> num, tenth |-> 0]
FloatValue(num, tenth) == [kind |-> "float", text |-> <<>>, num |-> num, tenth |-> tenth]

Digits == <<"0", "1", "2", "3", "4", "5", "6", "7", "8", "9">>

\* str(n) of a natural number
RECURSIVE IntText(_)
IntText(n) == IF n < 10 THEN <<Digits[n + 1]>> ELSE Append(IntText(n \div 10), Digits[(n % 10) + 1])

\* str(i), int(i), float(i) of a literal value; int and float of a string
\* that is no number raise ValueError
str(i) ==
    IF i.kind = "str" THEN i.text
    ELSE IF i.kind = "int" THEN IntText(i.num)
    ELSE IntText(i.num) \o <<".">> \o IntText(i.tenth)

IsNumber(text) == text # <<>> /\ \A k \in DOMAIN text : \E d \in DOMAIN Digits : Digits[d] = text[k]

int(i) ==
    IF i.kind = "int" THEN {i}
    ELSE IF i.kind = "float" THEN {IntValue(i.num)}
    ELSE {IntValue(n) : n \in {m \in 0..99 : IsNumber(i.text) /\ IntText(m) = i.text}}

float(i) ==
    IF i.kind = "float" THEN {i}
    ELSE IF i.kind = "int" THEN {FloatValue(i.num, 0)}
    ELSE {FloatValue(n, 0) : n \in {m \in 0..99 : IsNumber(i.text) /\ IntText(m) = i.text}}

_convert_application_command_option_type(type_) ==
    IF type_.origin # "" THEN 3
    ELSE IF type_.type = "str" THEN 3
    ELSE IF type_.type = "int" THEN 4
    ELSE IF type_.type = "bool" THEN 5
    ELSE IF type_.type \in {"User", "Member"} THEN 6
    ELSE IF type_.type \in {"TextChannel", "VoiceChannel", "CategoryChannel", "Thread", "StageChannel"}
    THEN 7
    ELSE IF type_.type = "Role" THEN 8
    ELSE IF type_.type = "float" THEN 10
    ELSE 3

\* What _convert_param yields: an int (choices = None) or a tuple of an int
\* and a list of choices, or an exception.
Converted(exc, type, choices) == [exc |-> exc, type |-> type, choices |-> choices]

Choice(name, value) == [name |-> name, value |-> value]

\* [{"name": str(i), "value": value(i)} for i in args], value among "str",
\* "int", "float"
ValueOf(value, i) == IF value = "str" THEN {StrValue(str(i))} ELSE IF value = "int" THEN int(i) ELSE float(i)

choices_of(type, value, args) ==
    IF \E k \in DOMAIN args : ValueOf(value, args[k]) = {}
    THEN Converted("ValueError", 0, None)
    ELSE Converted("", type,
                   Some([k \in DOMAIN args |->
                            Choice(str(args[k]), CHOOSE x \in ValueOf(value, args[k]) : TRUE)]))

\* lines 176-190 and 204-212: the choices of a Literal, by the type of its
\* first value
convert_literal_names_only(annotation) ==
    IF annotation.args[1].kind = "str" THEN choices_of(3, "str", annotation.args)
    ELSE IF annotation.args[1].kind = "int" THEN choices_of(4, "str", annotation.args)
    ELSE choices_of(10, "str", annotation.args)

convert_literal(annotation) ==
    IF annotation.args[1].kind = "str" THEN choices_of(3, "str", annotation.args)
    ELSE IF annotation.args[1].kind = "int" THEN choices_of(4, "int", annotation.args)
    ELSE choices_of(10, "float", annotation.args)

\* lines 191-202
convert_union_numbers_first(types) ==
    IF \A k \in DOMAIN types : types[k] = types[1] THEN Converted("", types[1], None)
    ELSE IF \A k \in DOMAIN types : types[k] \in {4, 10} THEN Converted("", 10, None)
    ELSE IF \A k \in DOMAIN types : types[k] \in {6, 7, 8} THEN Converted("", 3, None)
    ELSE Converted("", 3, None)

convert_union(types) ==
    IF \A k \in DOMAIN types : types[k] = types[1] THEN Converted("", types[1], None)
    ELSE IF \A k \in DOMAIN types : types[k] \in {6, 7, 8} THEN Converted("", 9, None)
    ELSE IF \A k \in DOMAIN types : types[k] \in {4, 10} THEN Converted("", 10, None)
    ELSE Converted("", 3, None)

\* [x for x in args if keep(x)]
RECURSIVE NotNone(_)
NotNone(args) ==
    IF args = <<>> THEN <<>>
    ELSE (IF Head(args) = NoneType THEN <<>> ELSE <<Head(args)>>) \o NotNone(Tail(args))

UnionTypes(args) ==
    [k \in DOMAIN NotNone(args) |-> _convert_application_command_option_type(NotNone(args)[k])]

\* next(i for i in args if i is a Literal)
FirstLiteral(args) ==
    args[CHOOSE k \in DOMAIN args :
             args[k].origin = "Literal" /\ \A j \in 1..(k - 1) : args[j].origin # "Literal"]

_convert_param(annotation) ==
    IF annotation = Empty THEN Converted("", 3, None)
    ELSE IF annotation.origin = "Union"
    THEN IF Len(annotation.args) = 2 /\ \E k \in DOMAIN annotation.args : annotation.args[k].origin = "Literal"
         THEN convert_literal(FirstLiteral(annotation.args))
         ELSE convert_union(UnionTypes(annotation.args))
    ELSE IF annotation.origin = "Literal" THEN convert_literal(annotation)
    ELSE Converted("", _convert_application_command_option_type(annotation), None)

\* inspect.Parameter: default is "empty" when the parameter has none
Parameter(name, annotation, default) == [name |-> name, annotation |-> annotation, default |-> default]

\* A command as _convert_options reads it: cog (NoCog: none), whether it is
\* a GroupMixin, its invocation types, brief ("": none), params in the order
\* declared, descriptions by parameter name, and for a group its commands in
\* the order they are iterated.
MkSlash(name, cog, group, type, brief, params, descriptions, commands) ==
    [name |-> name, cog |-> cog, group |-> group, type |-> type, brief |-> brief,
     params |-> params, descriptions |-> descriptions, commands |-> commands]

Placeholder == "No description provided"

\* What _convert_options yields: a list of options or an exception.
Options(exc, options) == [exc |-> exc, options |-> options]

\* command.descriptions.get(name, "No description provided")
DescriptionOf(command, name) ==
    IF name \in DOMAIN command.descriptions THEN command.descriptions[name] ELSE Placeholder

\* lines 269-313: the option of one parameter; the keys "required" and
\* "choices" are present only when they apply
option_of(command, param, type_) ==
    IF param.default = "empty"
    THEN IF type_.choices # None
         THEN [type |-> type_.type, name |-> param.name,
               description |-> DescriptionOf(command, param.name), required |-> TRUE,
               choices |-> CHOOSE x \in type_.choices : TRUE]
         ELSE [type |-> type_.type, name |-> param.name,
               description |-> DescriptionOf(command, param.name), required |-> TRUE]
    ELSE IF type_.choices # None
    THEN [type |-> type_.type, name |-> param.name,
          description |-> DescriptionOf(command, param.name),
          choices |-> CHOOSE x \in type_.choices : TRUE]
    ELSE [type |-> type_.type, name |-> param.name,
          description |-> DescriptionOf(command, param.name)]

\* lines 266-314: the loop over the parameters that are left
RECURSIVE convert_rest(_, _, _)
convert_next(type_, command, i, options) ==
    IF type_.exc # "" THEN Options(type_.exc, <<>>)
    ELSE convert_rest(command, i + 1, Append(options, option_of(command, command.params[i], type_)))

convert_rest(command, i, options) ==
    IF i > Len(command.params) THEN Options("", options)
    ELSE convert_next(_convert_param(command.params[i].annotation), command, i, options)

convert_leaf_always_skips_self(command) ==
    IF Len(command.params) < 1 THEN Options("ClientException", <<>>)
    ELSE IF Len(command.params) < 2 THEN Options("ClientException", <<>>)
    ELSE convert_rest(command, 3, <<>>)

\* lines 247-265: self is skipped when the command has a cog, then ctx
convert_leaf(command) ==
    IF command.cog # NoCog /\ Len(command.params) < 1 THEN Options("ClientException", <<>>)
    ELSE IF Len(command.params) < (IF command.cog # NoCog THEN 2 ELSE 1)
    THEN Options("ClientException", <<>>)
    ELSE convert_rest(command, IF command.cog # NoCog THEN 3 ELSE 2, <<>>)

\* len(com.type) > 1 or next(iter(com.type)) is not CommandType.default
Publishable(com) == Cardinality(com.type) > 1 \/ com.type # {"default"}

\* com.brief or "No description provided"
BriefOf(com) == IF com.brief = "" THEN Placeholder ELSE com.brief

\* lines 225-243: the option of one child
child_option(com, updated_group, opt) ==
    IF opt # <<>>
    THEN [type |-> updated_group, name |-> com.name, description |-> BriefOf(com), options |-> opt]
    ELSE [type |-> updated_group, name |-> com.name, description |-> BriefOf(com)]

UpdatedGroup_at_any_depth(group, com) == IF com.group THEN 2 ELSE 1

\* updated_group = 2 if group == 0 and isinstance(com, GroupMixin) else 1
UpdatedGroup(group, com) == IF group = 0 /\ com.group THEN 2 ELSE 1

RECURSIVE _convert_options(_, _)
RECURSIVE convert_children(_, _, _, _)
convert_child(opt, command, group, i, options) ==
    IF opt.exc # "" THEN opt
    ELSE convert_children(command, group, i + 1,
                          Append(options, child_option(command.commands[i],
                                                       UpdatedGroup(group, command.commands[i]),
                                                       opt.options)))

\* lines 223-244: the loop over the commands of a group
convert_children(command, group, i, options) ==
    IF i > Len(command.commands) THEN Options("", options)
    ELSE IF Publishable(command.commands[i])
    THEN convert_child(_convert_options(command.commands[i], UpdatedGroup(group, command.commands[i])),
                       command, group, i, options)
    ELSE convert_children(command, group, i + 1, options)

_convert_options(command, group) ==
    IF command.group /\ group # 1 THEN convert_children(command, group, 1, <<>>)
    ELSE convert_leaf(command)

----------------------------------------------------------------------------
(* Schema comparison: _check_options and _check_choices *)

\* i.get("options", []), i.get("choices", []) and
\* i.get("default_permissions", True) of an option
OptionsIn(i) == IF "options" \in DOMAIN i THEN i.options ELSE <<>>

ChoicesIn(i) == IF "choices" \in DOMAIN i THEN i.choices ELSE <<>>

DefaultPermissionsIn(i) ==
    IF "default_permissions" \in DOMAIN i THEN i.default_permissions ELSE TRUE

_check_choices_any_is_change(current, new) ==
    IF current # <<>> \/ new # <<>> THEN FALSE ELSE TRUE

\* line 341: the choices matched both ways by name and value
_check_choices(current, new) ==
    IF (current # <<>> /\ new = <<>>) \/ (new # <<>> /\ current = <<>>) THEN FALSE
    ELSE IF new = <<>> /\ current = <<>> THEN TRUE
    ELSE /\ \A j \in DOMAIN current : \E i \in DOMAIN new :
                new[i].name = current[j].name /\ new[i].value = current[j].value
         /\ \A i \in DOMAIN new : \E j \in DOMAIN current :
                new[i].name = current[j].name /\ new[i].value = current[j].value

\* line 324: d = {i.get("name"): i.get("options", []) for i in current},
\* read by d.get(name, []); of two options of one name the later one stays
NestedOf(current, name) ==
    IF \E k \in DOMAIN current : current[k].name = name
    THEN OptionsIn(current[CHOOSE k \in DOMAIN current :
                               /\ current[k].name = name
                               /\ \A l \in DOMAIN current : current[l].name = name => l <= k])
    ELSE <<>>

RECURSIVE _check_options(_, _)
\* line 332: one option i of new against one option j of current
same_option(i, j) ==
    /\ i.name = j.name
    /\ i.description = j.description
    /\ _check_options(OptionsIn(j), OptionsIn(i))
    /\ DefaultPermissionsIn(i) = DefaultPermissionsIn(j)
    /\ _check_choices(ChoicesIn(j), ChoicesIn(i))

_check_options(current, new) ==
    IF (current # <<>> /\ new = <<>>) \/ (new # <<>> /\ current = <<>>) THEN FALSE
    ELSE IF new = <<>> /\ current = <<>> THEN TRUE
    ELSE IF \E i \in DOMAIN new : OptionsIn(new[i]) # <<>>
    THEN \A i \in DOMAIN new :
             _check_options(NestedOf(current, new[i].name), OptionsIn(new[i]))
    ELSE /\ \A j \in DOMAIN current : \E i \in DOMAIN new : same_option(new[i], current[j])
         /\ \A i \in DOMAIN new : \E j \in DOMAIN current : same_option(new[i], current[j])

----------------------------------------------------------------------------
(* The state machine *)

\* The bot of the current state, with an empty log of entry-point calls.
Bot == [cogs |-> cogs, all_commands |-> all_commands, extra_events |-> extra_events,
        extensions |-> extensions, sys_modules |-> sys_modules, calls |-> <<>>]

\* The record of a routing call; the fields a call does not use are empty.
\* before: the two check lists when add_check or remove_check was called.
Routing(op, message, func, call_once, before, exc, p, resolved, called, v) ==
    [op |-> op, content |-> message.content, mine |-> message.mine, func |-> func,
     call_once |-> call_once, before |-> before, exc |-> exc, kind |-> p.kind, prefix |-> p.v,
     resolved |-> resolved, called |-> called, events |-> v.events,
     evaluated |-> v.evaluated, invoked |-> v.invoked, outcome |-> v.outcome]

NoMessage == [content |-> <<>>, mine |-> FALSE]

NoPrefix == PrefixResult("", "none", <<>>, FALSE)

NoChecks == [checks |-> <<>>, check_once |-> <<>>]

NoInvocation == [events |-> <<>>, evaluated |-> <<>>, invoked |-> FALSE, outcome |-> ""]

NotRouted == Routing("init", NoMessage, "", FALSE, NoChecks, "", NoPrefix, FALSE, FALSE, NoInvocation)

\* The record of an invoke with everything its dispatches ran; table: the
\* listener table when it was called.
Handling(op, table, context, v, outcome, log) ==
    [op |-> op, table |-> table, command |-> context.command, cog |-> context.cog,
     exc |-> v.exc, events |-> v.events, invoked |-> v.invoked, outcome |-> outcome, log |-> log]

NotHandled ==
    Handling("init", EmptyDict, [command |-> "none", cog |-> "none"],
             Invocation("", <<>>, <<>>, FALSE), "", <<>>)

\* The record of an invoke of a nested command: once, the checks the
\* call-once step evaluated; checked, the checks each level evaluated.
Nesting(op, levels, body, v, checked) ==
    [op |-> op, levels |-> levels, body |-> body, exc |-> v.exc, events |-> v.events,
     invoked |-> v.invoked, once |-> v.evaluated, checked |-> checked]

NotNested == Nesting("init", 0, "", Invocation("", <<>>, <<>>, FALSE), <<>>)

\* The record of a get_interaction_context call: the payload named the
\* command `root`, then the records `chain`, then the arguments `args`.
Interacting(op, root, chain, args, r) ==
    [op |-> op, root |-> root, chain |-> chain, args |-> args, exc |-> r.exc, key |-> r.key,
     ctx |-> r.ctx]

NoInteraction == Interacting("init", "", <<>>, None, Resolution("", "", None))

\* no schema function is being called
NoSchema == [op |-> "init", fn |-> ""]

\* Nothing was routed or converted yet.
InitHandlers ==
    /\ handled = NotHandled
    /\ nested = NotNested
    /\ interaction = NoInteraction

InitRecords ==
    /\ InitHandlers
    /\ schema = NoSchema

\* BotBase.__init__: both check lists empty
InitRouter ==
    /\ _checks = <<>>
    /\ _check_once = <<>>
    /\ ctx = None
    /\ routed = NotRouted
    /\ InitRecords

Becomes(b) ==
    /\ UNCHANGED router
    /\ UNCHANGED records
    /\ cogs' = b.cogs
    /\ all_commands' = b.all_commands
    /\ extra_events' = b.extra_events
    /\ extensions' = b.extensions
    /\ sys_modules' = b.sys_modules
    /\ calls' = b.calls

\* lib: the module registered under the name when the call was made (a set
\* of at most one module object); cog: the cog passed to add_cog; old: the
\* cog registered under the cog's name when the call was made; again: the
\* call repeats the operation and name of the call before it, which returned.
Call(op, name, src, override, cog, old, lib, exc, loadExc) ==
    [op |-> op, name |-> name, src |-> src, override |-> override, cog |-> cog,
     old |-> old, lib |-> lib, exc |-> exc, loadExc |-> loadExc,
     again |-> (last.op = op /\ last.name = name /\ last.exc = "")]

RegisteredCog(cn) == IF cn \in DOMAIN cogs THEN {cogs[cn]} ELSE {}

RegisteredAs(name) == IF name \in DOMAIN extensions THEN {extensions[name]} ELSE {}

\* BotBase.__init__: no cogs, no extensions, no listeners; the default help
\* command is the only command.
Init ==
    /\ cogs = EmptyDict
    /\ all_commands = DictPut(EmptyDict, "help", HelpCommand)
    /\ extra_events = EmptyDict
    /\ extensions = EmptyDict
    /\ sys_modules = EmptyDict
    /\ nextId = 1
    /\ InitRouter
    /\ command_prefix = MkPrefix(FALSE, "str", <<"!">>)
    /\ strip_after_prefix = FALSE
    /\ calls = <<>>
    /\ last = [op |-> "init", name |-> <<>>, src |-> Missing, override |-> FALSE, cog |-> {},
               old |-> {}, lib |-> {}, exc |-> "", loadExc |-> "", again |-> FALSE]

\* Whether load_extension(name) with file src reaches module_from_spec.
CreatesModule(b, name, src) ==
    ~IsRelative(name) /\ name \notin DOMAIN b.extensions /\ src.found

LoadExtensionDone(r, name, src) ==
    /\ Becomes(r.b)
    /\ nextId' = IF CreatesModule(Bot, name, src) THEN nextId + 1 ELSE nextId
    /\ last' = Call("load", name, src, FALSE, {}, {}, RegisteredAs(name), r.exc, r.exc)

LoadExtension ==
    \E name \in InputNames, src \in Sources :
        /\ nextId <= MaxLoads
        /\ LoadExtensionDone(load_extension(Bot, name, src, nextId), name, src)

UnloadExtensionDone(r, name) ==
    /\ Becomes(r.b)
    /\ nextId' = nextId
    /\ last' = Call("unload", name, Missing, FALSE, {}, {}, RegisteredAs(name), r.exc, "")

UnloadExtension ==
    \E name \in InputNames : UnloadExtensionDone(unload_extension(Bot, name), name)

ReloadExtensionDone(r, name, src) ==
    /\ Becomes(r.b)
    /\ nextId' = IF ~IsRelative(name) /\ name \in DOMAIN extensions /\ src.found
                 THEN nextId + 1 ELSE nextId
    /\ last' = Call("reload", name, src, FALSE, {}, {}, RegisteredAs(name), r.exc, r.loadExc)

ReloadExtension ==
    \E name \in InputNames, src \in Sources :
        /\ nextId <= MaxLoads
        /\ ReloadExtensionDone(reload_extension(Bot, name, src, nextId), name, src)

AddCogDone(r, cog, override) ==
    /\ Becomes(r.b)
    /\ nextId' = nextId
    /\ last' = Call("add_cog", <<>>, Missing, override, {cog}, RegisteredCog(cog.name), {}, r.exc, "")

AddCog ==
    \E cog \in UserCogs, override \in BOOLEAN : AddCogDone(add_cog(Bot, cog, override), cog, override)

CogNames == {"X", "Y"}

RemoveCog ==
    \E cn \in CogNames :
        /\ Becomes(remove_cog(Bot, cn))
        /\ nextId' = nextId
        /\ last' = Call("remove_cog", <<>>, Missing, FALSE, {}, RegisteredCog(cn), {}, "", "")

Next == LoadExtension \/ UnloadExtension \/ ReloadExtension \/ AddCog \/ RemoveCog

Spec == Init /\ [][Next]_all_vars

----------------------------------------------------------------------------
(* A bot driven by load_extension, unload_extension and reload_extension    *)
(* alone: the application adds and removes no cog of its own.               *)

NextExtensions == LoadExtension \/ UnloadExtension \/ ReloadExtension

SpecExtensions == Init /\ [][NextExtensions]_all_vars

----------------------------------------------------------------------------
(* Closing a bot that has loaded extensions and added cogs *)

\* the keys of a dictionary in the orders a dictionary can hold them
Orders(S) == {f \in [1..Cardinality(S) -> S] : \A i, j \in DOMAIN f : f[i] = f[j] => i = j}

\* lib: every module registered, old: every cog registered when close was
\* called
CloseWith(b) ==
    /\ Becomes(b)
    /\ nextId' = nextId
    /\ last' = Call("close", <<>>, Missing, FALSE, {},
                    {cogs[cn] : cn \in DOMAIN cogs}, {extensions[n] : n \in DOMAIN extensions},
                    "", "")

CloseCogs(extension_names) ==
    \E cog_names \in Orders(DOMAIN close_extensions(Bot, extension_names).cogs) :
        CloseWith(close(Bot, extension_names, cog_names))

Close == \E extension_names \in Orders(DOMAIN extensions) : CloseCogs(extension_names)

NextClose == LoadExtension \/ AddCog \/ Close

SpecClose == Init /\ [][NextClose]_all_vars

----------------------------------------------------------------------------
(* Registration of checks *)

Checkers == [checks |-> _checks, check_once |-> _check_once]

AddCheckDone(k, func, call_once) ==
    /\ _checks' = k.checks
    /\ _check_once' = k.check_once
    /\ routed' = Routing("add_check", NoMessage, func, call_once, Checkers, "", NoPrefix,
                         FALSE, FALSE, NoInvocation)
    /\ UNCHANGED <<vars, command_prefix, strip_after_prefix, ctx, records>>

AddCheck ==
    \E func \in Checks, call_once \in BOOLEAN :
        /\ Len(_checks) + Len(_check_once) < MaxChecks
        /\ AddCheckDone(add_check(Checkers, func, call_once), func, call_once)

RemoveCheckDone(k, func, call_once) ==
    /\ _checks' = k.checks
    /\ _check_once' = k.check_once
    /\ routed' = Routing("remove_check", NoMessage, func, call_once, Checkers, "", NoPrefix,
                         FALSE, FALSE, NoInvocation)
    /\ UNCHANGED <<vars, command_prefix, strip_after_prefix, ctx, records>>

RemoveCheck ==
    \E func \in Checks, call_once \in BOOLEAN :
        RemoveCheckDone(remove_check(Checkers, func, call_once), func, call_once)

NextChecks == AddCheck \/ RemoveCheck

SpecChecks == Init /\ [][NextChecks]_all_vars

----------------------------------------------------------------------------
(* Routing of messages: a bot with the commands "p" and "pp", a prefix      *)
(* source chosen at construction and call-once checks already registered.   *)

Router == [all_commands |-> all_commands, command_prefix |-> command_prefix,
           strip_after_prefix |-> strip_after_prefix]

InitRouting ==
    /\ cogs = EmptyDict
    /\ all_commands = RoutedCommands
    /\ extra_events = EmptyDict
    /\ extensions = EmptyDict
    /\ sys_modules = EmptyDict
    /\ nextId = 1
    /\ calls = <<>>
    /\ last = [op |-> "init", name |-> <<>>, src |-> Missing, override |-> FALSE, cog |-> {},
               old |-> {}, lib |-> {}, exc |-> "", loadExc |-> "", again |-> FALSE]
    /\ _checks = <<>>
    /\ _check_once \in CheckLists(MaxChecks)
    /\ ctx = None
    /\ routed = NotRouted
    /\ InitRecords
    /\ command_prefix \in PrefixSources
    /\ strip_after_prefix \in BOOLEAN

GetPrefixDone(r) ==
    /\ routed' = Routing("get_prefix", NoMessage, "", FALSE, NoChecks, r.exc, r, TRUE, r.called,
                         NoInvocation)
    /\ UNCHANGED <<vars, _checks, _check_once, command_prefix, strip_after_prefix, ctx, records>>

\* The prefix functions of the model return the same for every message.
GetPrefix == GetPrefixDone(get_prefix(command_prefix, NoMessage))

GetContextDone(r, message) ==
    /\ ctx' = r.ctx
    /\ routed' = Routing("get_context", message, "", FALSE, NoChecks, r.exc, NoPrefix,
                         r.resolved, r.called, NoInvocation)
    /\ UNCHANGED <<vars, _checks, _check_once, command_prefix, strip_after_prefix, records>>

GetContext ==
    \E message \in Messages : GetContextDone(get_context(Router, message), message)

InvokeDone(v, outcome) ==
    /\ routed' = Routing("invoke", NoMessage, "", FALSE, NoChecks, v.exc, NoPrefix, FALSE, FALSE,
                         [events |-> v.events, evaluated |-> v.evaluated,
                          invoked |-> v.invoked, outcome |-> outcome])
    /\ UNCHANGED <<vars, _checks, _check_once, command_prefix, strip_after_prefix, ctx, records>>

\* invoke(ctx) on the context get_context returned last
Invoke ==
    \E c \in ctx, outcome \in Outcomes : InvokeDone(invoke(Checkers, c, outcome), outcome)

NextRouting == GetPrefix \/ GetContext \/ Invoke

SpecRouting == InitRouting /\ [][NextRouting]_all_vars

----------------------------------------------------------------------------
(* Routing of errors: a bot with the command "p", the prefix "!", listeners *)
(* of the command-error event that come and go, and the contexts of the     *)
(* messages "!p" (the command "p") and "!!" (no such command).              *)

MaxListeners == 2

ErrorListeners ==
    {MkListener("on_command_error", MOD_MAIN, 0, NoCog), MkListener("on_command_error", MOD_A, 1, NoCog)}

ErrorContexts ==
    {get_context([all_commands |-> RoutedCommands, command_prefix |-> MkPrefix(FALSE, "str", <<"!">>),
                  strip_after_prefix |-> FALSE],
                 [content |-> content, mine |-> FALSE]).ctx : content \in {<<"!", "p">>, <<"!", "!">>}}

InitErrors ==
    /\ cogs = EmptyDict
    /\ all_commands = RoutedCommands
    /\ extra_events = EmptyDict
    /\ extensions = EmptyDict
    /\ sys_modules = EmptyDict
    /\ nextId = 1
    /\ calls = <<>>
    /\ last = [op |-> "init", name |-> <<>>, src |-> Missing, override |-> FALSE, cog |-> {},
               old |-> {}, lib |-> {}, exc |-> "", loadExc |-> "", again |-> FALSE]
    /\ _checks = <<>>
    /\ _check_once \in {<<>>, <<"no">>}
    /\ ctx \in ErrorContexts
    /\ routed = NotRouted
    /\ InitRecords
    /\ command_prefix = MkPrefix(FALSE, "str", <<"!">>)
    /\ strip_after_prefix = FALSE

AddListener ==
    \E func \in ErrorListeners :
        /\ Len(scheduled(Bot, "on_command_error", "")) < MaxListeners
        /\ Becomes(add_listener(Bot, func, "on_command_error"))
        /\ UNCHANGED <<nextId, last>>

RemoveListener ==
    \E func \in ErrorListeners :
        /\ Becomes(remove_listener(Bot, func, "on_command_error"))
        /\ UNCHANGED <<nextId, last>>

\* what unloading the extension "a" does to the tables
RemoveModuleReferences ==
    /\ Becomes(_remove_module_references(Bot, MOD_A))
    /\ UNCHANGED <<nextId, last>>

InvokeRoutedDone(v, context, outcome) ==
    /\ handled' = Handling("invoke", extra_events, context, v, outcome,
                            route(Bot, context, v.events, 1))
    /\ UNCHANGED <<vars, router, nested, interaction, schema>>

\* invoke(ctx) together with the handlers its dispatches run
InvokeRouted ==
    \E c \in ctx, command_hook \in BOOLEAN, cog \in Hooks, outcome \in Outcomes :
        InvokeRoutedDone(invoke(Checkers, c, outcome), Failing(c, command_hook, cog), outcome)

NextErrors == AddListener \/ RemoveListener \/ RemoveModuleReferences \/ InvokeRouted

SpecErrors == InitErrors /\ [][NextErrors]_all_vars

----------------------------------------------------------------------------
(* Invocation of nested commands: a bot with any global and call-once       *)
(* checks registered and the context of the message "!p".                   *)

MaxLevels == 3

NestedContexts ==
    {get_context([all_commands |-> RoutedCommands, command_prefix |-> MkPrefix(FALSE, "str", <<"!">>),
                  strip_after_prefix |-> FALSE],
                 [content |-> <<"!", "p">>, mine |-> FALSE]).ctx}

InitNested ==
    /\ cogs = EmptyDict
    /\ all_commands = RoutedCommands
    /\ extra_events = EmptyDict
    /\ extensions = EmptyDict
    /\ sys_modules = EmptyDict
    /\ nextId = 1
    /\ calls = <<>>
    /\ last = [op |-> "init", name |-> <<>>, src |-> Missing, override |-> FALSE, cog |-> {},
               old |-> {}, lib |-> {}, exc |-> "", loadExc |-> "", again |-> FALSE]
    /\ _checks \in CheckLists(MaxChecks)
    /\ _check_once \in CheckLists(MaxChecks)
    /\ ctx \in NestedContexts
    /\ routed = NotRouted
    /\ InitRecords
    /\ command_prefix = MkPrefix(FALSE, "str", <<"!">>)
    /\ strip_after_prefix = FALSE

InvokeNestedDone(p, v, levels, body) ==
    /\ nested' = Nesting("invoke", levels, body, v, IF v.invoked THEN p.checked ELSE <<>>)
    /\ UNCHANGED <<vars, router, handled, interaction, schema>>

InvokeNestedWith(p, c, levels, body) ==
    InvokeNestedDone(p, invoke(Checkers, c, p.exc), levels, body)

\* invoke(ctx) of a command that resolves through `levels` levels
InvokeNested ==
    \E c \in ctx, levels \in 1..MaxLevels, body \in Outcomes :
        InvokeNestedWith(pipeline(Checkers, c, CHOOSE x \in c.command : TRUE, levels, body, <<>>),
                         c, levels, body)

NextNested == InvokeNested

SpecNested == InitNested /\ [][NextNested]_all_vars

----------------------------------------------------------------------------
(* Routing of interactions: a bot with the command tree Tree receives       *)
(* application-command payloads.                                            *)

MaxDepth == 2

\* an argument record: a string option
Argument(name) == [type |-> 3, name |-> name, value |-> name]

\* The arguments of a payload: the key "options" absent (None), an empty
\* array, one or two argument records.
Arguments == {None, Some(<<>>), Some(<<Argument("a")>>), Some(<<Argument("a"), Argument("b")>>)}

\* The names of the nested records of a payload; "x" is in no table.
Chains == UNION {[1..n -> {"g", "s", "x"}] : n \in 0..MaxDepth}

\* an option record of a nested selection
Selection(type, name, options) ==
    IF options = None THEN [type |-> type, name |-> name]
    ELSE [type |-> type, name |-> name, options |-> CHOOSE x \in options : TRUE]

\* the "options" of level i: the last record of the chain is a sub-command,
\* the ones before it are sub-command groups
RECURSIVE Selections(_, _, _)
Selections(chain, i, args) ==
    IF i > Len(chain) THEN args
    ELSE Some(<<Selection(IF i < Len(chain) THEN 2 ELSE 1, chain[i], Selections(chain, i + 1, args))>>)

\* interaction.data
Payload(root, options) ==
    IF options = None THEN [name |-> root]
    ELSE [name |-> root, options |-> CHOOSE x \in options : TRUE]

InitInteraction ==
    /\ cogs = EmptyDict
    /\ all_commands = Tree
    /\ extra_events = EmptyDict
    /\ extensions = EmptyDict
    /\ sys_modules = EmptyDict
    /\ nextId = 1
    /\ calls = <<>>
    /\ last = [op |-> "init", name |-> <<>>, src |-> Missing, override |-> FALSE, cog |-> {},
               old |-> {}, lib |-> {}, exc |-> "", loadExc |-> "", again |-> FALSE]
    /\ InitRouter
    /\ command_prefix = MkPrefix(FALSE, "str", <<"!">>)
    /\ strip_after_prefix = FALSE

GetInteractionContextDone(r, root, chain, args) ==
    /\ interaction' = Interacting("get_interaction_context", root, chain, args, r)
    /\ UNCHANGED <<vars, router, handled, nested, schema>>

GetInteractionContext ==
    \E root \in {"r", "c", "x"}, chain \in Chains, args \in Arguments :
        GetInteractionContextDone(
            get_interaction_context(Bot, Payload(root, Selections(chain, 1, args))),
            root, chain, args)

NextInteraction == GetInteractionContext

SpecInteraction == InitInteraction /\ [][NextInteraction]_all_vars

----------------------------------------------------------------------------
(* The schema functions, applied to arguments chosen at the start.          *)

MaxChoices == 3

MaxUnion == 3

PlainTypes ==
    {"str", "int", "bool", "User", "Member", "TextChannel", "VoiceChannel", "CategoryChannel",
     "Thread", "StageChannel", "Role", "float", "other"}

Literals ==
    {StrValue(<<"a">>), StrValue(<<"b">>), StrValue(<<"c">>), IntValue(1), IntValue(10),
     FloatValue(1, 5)}

\* the sequences of 1..n members of S without repetition
Distinct(S, n) ==
    {l \in UNION {[1..m -> S] : m \in 1..n} : \A i, j \in DOMAIN l : l[i] = l[j] => i = j}

\* Literal[...] of up to MaxChoices values
LiteralAnnotations == {LiteralOf(l) : l \in Distinct(Literals, MaxChoices)}

\* Union[...] of 2..MaxUnion plain types, NoneType among them or not
UnionAnnotations ==
    {UnionOf([k \in DOMAIN u |-> Plain(u[k])]) :
        u \in {l \in Distinct(PlainTypes \cup {"NoneType"}, MaxUnion) : Len(l) >= 2}}

\* Optional[Literal[...]], the members in either order
OptionalLiterals ==
    {UnionOf(<<a, NoneType>>) : a \in LiteralAnnotations}
        \cup {UnionOf(<<NoneType, a>>) : a \in LiteralAnnotations}

Annotations ==
    {Empty} \cup {Plain(t) : t \in PlainTypes} \cup LiteralAnnotations \cup UnionAnnotations
        \cup OptionalLiterals

MaxParams == 2

\* the annotations of the parameters of the commands converted
ParamAnnotations ==
    {Empty, Plain("int"), LiteralOf(<<StrValue(<<"a">>), StrValue(<<"b">>)>>),
     UnionOf(<<Plain("User"), Plain("Role"), NoneType>>)}

\* the parameters a callback declares after self and ctx, named in order
ParamNames == <<"a", "b", "c">>

Declared ==
    UNION {{[k \in 1..n |-> Parameter(ParamNames[k], f[k].annotation, f[k].default)] :
               f \in [1..n -> [annotation : ParamAnnotations, default : {"empty", "given"}]]} :
           n \in 0..MaxParams}

\* self and ctx as a callback declares them
Implicit(cog) ==
    IF cog # NoCog THEN <<Parameter("self", Empty, "empty"), Parameter("ctx", Empty, "empty")>>
    ELSE <<Parameter("ctx", Empty, "empty")>>

\* The signatures of callbacks: self (for a command of a cog) and ctx, then
\* the declared parameters; or fewer parameters than self and ctx
Signatures(cog) ==
    {Implicit(cog) \o d : d \in Declared}
        \cup {SubSeq(Implicit(cog), 1, n) : n \in 0..(Len(Implicit(cog)) - 1)}

\* command.descriptions: texts for some of the parameter names
Descriptions ==
    UNION {[S -> {"about"}] : S \in SUBSET {ParamNames[k] : k \in 1..MaxParams}}

\* commands that are no groups, of no cog or of the cog "X"
LeafCommandsOf(cog) ==
    {MkSlash("c", cog, FALSE, {"chat_input"}, "", params, descriptions, <<>>) :
        params \in Signatures(cog), descriptions \in Descriptions}

LeafCommands == LeafCommandsOf(NoCog) \cup LeafCommandsOf("X")

\* a sub-command: ctx and the parameters `declared`
Sub(name, type, brief, declared) ==
    MkSlash(name, NoCog, FALSE, type, brief, Implicit(NoCog) \o declared, EmptyDict, <<>>)

\* The group "r": the sub-command "s" with one parameter, the text-only
\* command "t", and the group "g" with the sub-command "u" and a group "h"
\* of its own.
GroupCommands ==
    {MkSlash("r", NoCog, TRUE, {"chat_input"}, "", Implicit(NoCog), EmptyDict,
             <<Sub("s", {"chat_input"}, "brief", <<Parameter("a", Plain("int"), "empty")>>),
               Sub("t", {"default"}, "", <<>>),
               MkSlash("g", NoCog, TRUE, {"default", "chat_input"}, "", Implicit(NoCog), EmptyDict,
                       <<Sub("u", {"chat_input"}, "", <<>>),
                         MkSlash("h", NoCog, TRUE, {"chat_input"}, "",
                                 Implicit(NoCog) \o <<Parameter("b", Empty, "given")>>, EmptyDict,
                                 <<Sub("v", {"chat_input"}, "", <<>>)>>)>>)>>),
     MkSlash("q", NoCog, TRUE, {"chat_input"}, "", Implicit(NoCog), EmptyDict,
             <<Sub("s", {"chat_input"}, "",
                   <<Parameter("a", LiteralOf(<<StrValue(<<"a">>), StrValue(<<"b">>)>>), "empty"),
                     Parameter("b", Plain("int"), "given")>>),
               Sub("u", {"chat_input"}, "", <<>>)>>)}

OptionCalls ==
    {[op |-> "call", fn |-> "_convert_options", command |-> c, group |-> 0] :
        c \in LeafCommands \cup GroupCommands}


ParamCalls == {[op |-> "call", fn |-> "_convert_param", annotation |-> a] : a \in Annotations}

InitSchema ==
    /\ cogs = EmptyDict
    /\ all_commands = DictPut(EmptyDict, "help", HelpCommand)
    /\ extra_events = EmptyDict
    /\ extensions = EmptyDict
    /\ sys_modules = EmptyDict
    /\ nextId = 1
    /\ calls = <<>>
    /\ last = [op |-> "init", name |-> <<>>, src |-> Missing, override |-> FALSE, cog |-> {},
               old |-> {}, lib |-> {}, exc |-> "", loadExc |-> "", again |-> FALSE]
    /\ _checks = <<>>
    /\ _check_once = <<>>
    /\ ctx = None
    /\ routed = NotRouted
    /\ InitHandlers
    /\ command_prefix = MkPrefix(FALSE, "str", <<"!">>)
    /\ strip_after_prefix = FALSE
    /\ schema \in ParamCalls \cup OptionCalls

ConvertParamDone(r) ==
    /\ schema' = [op |-> "return", fn |-> "_convert_param", annotation |-> schema.annotation,
                  exc |-> r.exc, type |-> r.type, choices |-> r.choices]
    /\ UNCHANGED <<vars, router, handled, nested, interaction>>

ConvertParam ==
    /\ schema.op = "call"
    /\ schema.fn = "_convert_param"
    /\ ConvertParamDone(_convert_param(schema.annotation))

ConvertOptionsDone(r) ==
    /\ schema' = [op |-> "return", fn |-> "_convert_options", command |-> schema.command,
                  exc |-> r.exc, options |-> r.options]
    /\ UNCHANGED <<vars, router, handled, nested, interaction>>

ConvertOptions ==
    /\ schema.op = "call"
    /\ schema.fn = "_convert_options"
    /\ ConvertOptionsDone(_convert_options(schema.command, schema.group))

\* The options converted are compared with themselves, as they are when a
\* command is published again unchanged.
Republish ==
    /\ schema.op = "return"
    /\ schema.fn = "_convert_options"
    /\ schema.exc = ""
    /\ schema' = [op |-> "return", fn |-> "republish", command |-> schema.command,
                  options |-> schema.options,
                  result |-> _check_options(schema.options, schema.options)]
    /\ UNCHANGED <<vars, router, handled, nested, interaction>>

NextSchema == ConvertParam \/ ConvertOptions \/ Republish

SpecSchema == InitSchema /\ [][NextSchema]_all_vars

----------------------------------------------------------------------------
(* Comparing option trees *)

MaxOptions == 2

\* Options without options of their own: two names, two descriptions, with
\* a choice list and with a default permission.
LeafOptions ==
    {[type |-> 3, name |-> "a", description |-> "d"],
     [type |-> 3, name |-> "b", description |-> "d"],
     [type |-> 3, name |-> "a", description |-> "e"],
     [type |-> 3, name |-> "a", description |-> "d",
      choices |-> <<Choice(<<"x">>, StrValue(<<"x">>))>>],
     [type |-> 3, name |-> "a", description |-> "d", default_permissions |-> FALSE]}

\* Sub-commands: options that carry a list of options
NestedOptions ==
    {[type |-> 1, name |-> n, description |-> "d",
      options |-> <<[type |-> 3, name |-> "a", description |-> "d"]>>] : n \in {"a", "b"}}
        \cup {[type |-> 1, name |-> "a", description |-> "e",
               options |-> <<[type |-> 3, name |-> "a", description |-> "d"]>>]}

\* option lists of up to MaxOptions options
OptionTrees ==
    UNION {[1..n -> LeafOptions \cup NestedOptions] : n \in 0..MaxOptions}

CheckCalls ==
    {[op |-> "call", fn |-> "_check_options", current |-> a, new |-> b] :
        a \in OptionTrees, b \in OptionTrees}

InitDiff ==
    /\ cogs = EmptyDict
    /\ all_commands = DictPut(EmptyDict, "help", HelpCommand)
    /\ extra_events = EmptyDict
    /\ extensions = EmptyDict
    /\ sys_modules = EmptyDict
    /\ nextId = 1
    /\ calls = <<>>
    /\ last = [op |-> "init", name |-> <<>>, src |-> Missing, override |-> FALSE, cog |-> {},
               old |-> {}, lib |-> {}, exc |-> "", loadExc |-> "", again |-> FALSE]
    /\ _checks = <<>>
    /\ _check_once = <<>>
    /\ ctx = None
    /\ routed = NotRouted
    /\ InitHandlers
    /\ command_prefix = MkPrefix(FALSE, "str", <<"!">>)
    /\ strip_after_prefix = FALSE
    /\ schema \in CheckCalls

CheckOptionsDone(r) ==
    /\ schema' = [op |-> "return", fn |-> "_check_options", current |-> schema.current,
                  new |-> schema.new, result |-> r]
    /\ UNCHANGED <<vars, router, handled, nested, interaction>>

CheckOptions ==
    /\ schema.op = "call"
    /\ schema.fn = "_check_options"
    /\ CheckOptionsDone(_check_options(schema.current, schema.new))

NextDiff == CheckOptions

SpecDiff == InitDiff /\ [][NextDiff]_all_vars

----------------------------------------------------------------------------
(* Properties *)

\* "child is parent or a dotted sub-module of parent", stated on its own
IsDottedSub(parent, child) ==
    \/ child = parent
    \/ /\ Len(child) > Len(parent)
       /\ \A i \in 1..Len(parent) : child[i] = parent[i]
       /\ child[Len(parent) + 1] = "."

\* The cogs, commands and listeners of the tables b declared by `name` or by
\* one of its dotted sub-modules.
AttributedIn(b, name) ==
    [cogs |-> {b.cogs[cn] : cn \in {x \in DOMAIN b.cogs : IsDottedSub(name, b.cogs[x].module)}},
     cmds |-> {b.all_commands[c] : c \in {x \in DOMAIN b.all_commands :
                                           IsDottedSub(name, b.all_commands[x].module)}},
     lsn  |-> UNION {{b.extra_events[e][i] : i \in {j \in DOMAIN b.extra_events[e] :
                          IsDottedSub(name, b.extra_events[e][j].module)}} :
                     e \in DOMAIN b.extra_events}]

\* No cog, command or listener of the state is declared by `name` or by one
\* of its dotted sub-modules.
NothingAttributedTo(name) == AttributedIn(Bot, name) = NoneOwned

\* The tables of the next state.
TablesNext == [cogs |-> cogs', all_commands |-> all_commands', extra_events |-> extra_events']

\* C7: a lifecycle call whose registration precondition fails changes
\* nothing: load_extension of a registered name raises ExtensionAlreadyLoaded
\* and reload_extension of an unregistered name raises ExtensionNotLoaded; no
\* setup or teardown is invoked and the registry, the command tree, the cog
\* set, the listener table and the module cache are unchanged.
C7_FailedPreconditionChangesNothing ==
    [][/\ (last'.op = "load" /\ ~IsRelative(last'.name) /\ last'.name \in DOMAIN extensions)
            => /\ last'.exc = "ExtensionAlreadyLoaded"
               /\ calls' = <<>>
               /\ UNCHANGED <<extensions, all_commands, cogs, extra_events, sys_modules>>
       /\ (last'.op = "reload" /\ ~IsRelative(last'.name) /\ last'.name \notin DOMAIN extensions)
            => /\ last'.exc = "ExtensionNotLoaded"
               /\ calls' = <<>>
               /\ UNCHANGED <<extensions, all_commands, cogs, extra_events, sys_modules>>
      ]_vars

\* C7 witness: load_extension was called on a registered name, with a file
\* that would have loaded, while the extension's artifacts are in place.
C7_Witness ==
    /\ last.op = "load" /\ last.exc = "ExtensionAlreadyLoaded"
    /\ last.src.found /\ last.src.body /\ last.src.setup = "ok"
    /\ last.name \in DOMAIN extensions
    /\ cogs # EmptyDict

\* C4: unload_extension called twice on the same registered name succeeds
\* the first time and raises ExtensionNotLoaded the second time; the second
\* call invokes no teardown and leaves the registry, the command tree, the
\* cog set, the listener table and the module cache as the first left them.
C4_IdempotentUnload ==
    [][/\ (last'.op = "unload" /\ last'.lib # {}) => last'.exc = ""
       /\ (last.op = "unload" /\ last.lib # {} /\ last'.op = "unload" /\ last'.name = last.name)
            => /\ last'.exc = "ExtensionNotLoaded"
               /\ calls' = <<>>
               /\ UNCHANGED <<extensions, all_commands, cogs, extra_events, sys_modules>>
      ]_vars

\* C4 witness: the second of two unload calls on a name has raised.
C4_Witness ==
    /\ last.op = "unload" /\ last.again /\ last.exc = "ExtensionNotLoaded"
    /\ last.name \in ExtNames

\* C5: after unload_extension(name) returns for a registered name, no
\* active cog, no command of the global tree and no listener of any event is
\* declared by the extension's module or a dotted sub-module of it, the name
\* is absent from the registry, and the module cache holds no entry for the
\* name or any of its sub-modules.
C5_UnloadStripsEverything ==
    (last.op = "unload" /\ last.exc = "")
        => /\ last.lib # {}
           /\ \A lib \in last.lib : NothingAttributedTo(lib.name)
           /\ last.name \notin DOMAIN extensions
           /\ \A k \in DOMAIN sys_modules : ~IsDottedSub(last.name, k)

\* C5 witness: "a" has been unloaded while its sub-module "a.b" was loaded
\* as an extension too.
C5_Witness ==
    /\ last.op = "unload" /\ last.exc = "" /\ last.name = MOD_A
    /\ MOD_A_B \in DOMAIN extensions

\* C6: unload_extension strips the extension's cogs, commands and listeners,
\* then invokes teardown if the module defines one (while the extension is
\* still registered and cached), then removes the extension from the registry
\* and purges the module cache; a teardown that raises is swallowed:
\* unload_extension returns normally and the extension is removed all the same.
C6_UnloadOrder ==
    [][(last'.op = "unload" /\ ~IsRelative(last'.name) /\ last'.name \in DOMAIN extensions)
         => /\ last'.exc = ""
            /\ IF extensions[last'.name].src.teardown = "none"
               THEN calls' = <<>>
               ELSE /\ Len(calls') = 1
                    /\ calls'[1].fn = "teardown"
                    /\ calls'[1].id = extensions[last'.name].id
                    /\ calls'[1].raised = (extensions[last'.name].src.teardown = "raises")
                    /\ calls'[1].seen.owned = NoneOwned
                    /\ calls'[1].seen.registered
                    /\ calls'[1].seen.cached = DOMAIN sys_modules
            /\ last'.name \notin DOMAIN extensions'
            /\ last'.name \notin DOMAIN sys_modules'
      ]_vars

\* C6 witness: an unload whose teardown raised has returned normally.
C6_Witness ==
    /\ last.op = "unload" /\ last.exc = ""
    /\ Len(calls) = 1 /\ calls[1].fn = "teardown" /\ calls[1].raised

\* C8: load_extension of an unregistered name whose module body raises ends
\* with ExtensionFailed, and one whose module defines no setup ends with
\* NoEntryPointError; in both cases setup is never invoked, the name is not
\* added to the registry and the module-cache entry made for it is removed.
C8_FailedImportLeavesNothing ==
    (/\ last.op = "load" /\ ~IsRelative(last.name) /\ last.lib = {} /\ last.src.found
     /\ (~last.src.body \/ last.src.setup = "none"))
        => /\ last.exc = IF ~last.src.body THEN "ExtensionFailed" ELSE "NoEntryPointError"
           /\ calls = <<>>
           /\ last.name \notin DOMAIN extensions
           /\ last.name \notin DOMAIN sys_modules

\* C8 witness: a module without a setup entry point has been refused.
C8_Witness ==
    /\ last.op = "load" /\ last.exc = "NoEntryPointError"
    /\ last.src.body /\ last.src.setup = "none"

\* C2: if setup raises during load_extension after having registered cogs,
\* commands and listeners, then after load_extension has raised
\* ExtensionFailed no cog, command or listener is declared by the extension
\* or one of its sub-modules, and the name is not in the registry.
C2_NoPartialRegistration ==
    (/\ last.op = "load" /\ calls # <<>>
     /\ calls[1].fn = "setup" /\ calls[1].raised)
        => /\ last.exc = "ExtensionFailed"
           /\ NothingAttributedTo(last.name)
           /\ last.name \notin DOMAIN extensions

\* C2 witness: the setup that raised had registered a cog and a listener.
C2_Witness ==
    /\ last.op = "load" /\ last.exc = "ExtensionFailed" /\ calls # <<>>
    /\ calls[1].fn = "setup" /\ calls[1].raised
    /\ calls[1].made.cogs # {} /\ calls[1].made.cmds # {} /\ calls[1].made.lsn # {}

\* unload_extension(name) followed, if it returns, by load_extension(name)
ThenLoad(u, name, src, id) ==
    IF u.exc # "" THEN u ELSE load_extension(u.b, name, src, id)

UnloadThenLoad(b, name, src, id) == ThenLoad(unload_extension(b, name), name, src, id)

\* The next state is the bot r.b, reached without an exception.
ReturnsInto(r) ==
    /\ r.exc = ""
    /\ cogs' = r.b.cogs
    /\ all_commands' = r.b.all_commands
    /\ extra_events' = r.b.extra_events
    /\ extensions' = r.b.extensions
    /\ sys_modules' = r.b.sys_modules
    /\ calls' = r.b.calls

\* C9: when both phases succeed, reload_extension(name) leaves the state
\* that unload_extension(name) followed by load_extension(name) leaves: the
\* old module's artifacts are stripped and its teardown runs before the new
\* module's setup, the name is registered with the newly loaded module, and
\* the artifacts present for the extension are those the new setup registered.
C9_ReloadIsUnloadThenLoad ==
    [][(last'.op = "reload" /\ last'.exc = "")
         => /\ last'.name \in DOMAIN extensions
            /\ ReturnsInto(UnloadThenLoad(Bot, last'.name, last'.src, nextId))
            /\ extensions'[last'.name] = MkLib(last'.name, nextId, last'.src)
            /\ extensions[last'.name].id < nextId
            /\ calls' # <<>>
            /\ calls'[Len(calls')].fn = "setup"
            /\ calls'[Len(calls')].id = nextId
            /\ calls'[Len(calls')].seen.owned = NoneOwned
            /\ ~calls'[Len(calls')].seen.registered
            /\ IF extensions[last'.name].src.teardown = "none"
               THEN Len(calls') = 1
               ELSE /\ Len(calls') = 2
                    /\ calls'[1].fn = "teardown"
                    /\ calls'[1].id = extensions[last'.name].id
            /\ AttributedIn(TablesNext, last'.name) = calls'[Len(calls')].made
            /\ \A c \in AttributedIn(TablesNext, last'.name).cogs : c.id = nextId
            /\ \A c \in AttributedIn(TablesNext, last'.name).cmds : c.id = nextId
            /\ \A l \in AttributedIn(TablesNext, last'.name).lsn : l.id = nextId
      ]_vars

\* C9 witness: a reload has succeeded; the old module's teardown and the
\* new module's setup were both invoked.
C9_Witness ==
    /\ last.op = "reload" /\ last.exc = ""
    /\ Len(calls) = 2 /\ calls[2].made.cogs # {}

\* The cogs that are injected in the tables t, as seen from the commands
\* and listeners they own: [name, module, id].
ActiveCogsIn(t) ==
    {[name |-> c.cog, module |-> c.module, id |-> c.id] :
         c \in {t.all_commands[k] : k \in {x \in DOMAIN t.all_commands :
                                              t.all_commands[x].cog # NoCog}}}
    \cup UNION {{[name |-> t.extra_events[e][i].cog, module |-> t.extra_events[e][i].module,
                  id |-> t.extra_events[e][i].id] :
                     i \in {j \in DOMAIN t.extra_events[e] : t.extra_events[e][j].cog # NoCog}} :
                e \in DOMAIN t.extra_events}

\* The cog's command and listener are in the tables t.
InjectedIn(t, cog) ==
    /\ cog.cmd # "" => (cog.cmd \in DOMAIN t.all_commands /\ t.all_commands[cog.cmd] = CogCommand(cog))
    /\ cog.event # "" => /\ cog.event \in DOMAIN t.extra_events
                         /\ \E i \in DOMAIN t.extra_events[cog.event] :
                                t.extra_events[cog.event][i] = CogListener(cog)

\* At most one cog is active per name, and it is the registered one.
OneCogPerNameIn(t) ==
    /\ \A a \in ActiveCogsIn(t) :
           /\ a.name \in DOMAIN t.cogs
           /\ t.cogs[a.name].module = a.module
           /\ t.cogs[a.name].id = a.id
    /\ \A cn \in DOMAIN t.cogs : t.cogs[cn].name = cn /\ InjectedIn(t, t.cogs[cn])
    /\ \A e \in DOMAIN t.extra_events : \A i, j \in DOMAIN t.extra_events[e] :
           (t.extra_events[e][i].cog # NoCog /\ t.extra_events[e][i] = t.extra_events[e][j])
               => i = j

C1_ReloadAtomicity ==
    [][(/\ last'.op = "reload"
        /\ last'.lib # {}
        /\ last'.loadExc \in {"ExtensionFailed", "NoEntryPointError"})
         => /\ UNCHANGED <<all_commands, cogs, extra_events>>
            /\ last'.name \in DOMAIN extensions'
            /\ extensions'[last'.name] = extensions[last'.name]
      ]_vars

\* C3: after a failed reload_extension every module-cache entry for the
\* target or one of its sub-modules that existed before the call is present
\* again and bound to the same module object, the original module's setup has
\* been re-invoked exactly once, and the exception raised to the caller is
\* the failure of the unload/load sequence.
C3_ReloadRestoresModuleCache ==
    [][(last'.op = "reload" /\ last'.lib # {} /\ last'.loadExc # "")
         => /\ \A k \in DOMAIN sys_modules :
                  IsDottedSub(last'.name, k)
                      => (k \in DOMAIN sys_modules' /\ sys_modules'[k] = sys_modules[k])
            /\ Cardinality({i \in DOMAIN calls' :
                               /\ calls'[i].fn = "setup"
                               /\ calls'[i].id = extensions[last'.name].id}) = 1
            /\ last'.exc = last'.loadExc
      ]_vars

----------------------------------------------------------------------------
(* Properties of check registration *)

\* The list the call selects, and the other one.
Selected(k, call_once) == IF call_once THEN k.check_once ELSE k.checks
Other(k, call_once) == IF call_once THEN k.checks ELSE k.check_once

\* l without its element at position i, the others in their order
Without(l, i) == [j \in 1..(Len(l) - 1) |-> IF j < i THEN l[j] ELSE l[j + 1]]

\* C11: global checks and call-once checks are two separate ordered lists.
\* add_check and remove_check change only the list call_once selects; add_check
\* puts the function at the end of it, remove_check takes one occurrence out
\* and keeps the others in their order; remove_check of a function that is
\* not in the selected list raises nothing and leaves both lists unchanged.
C11_SeparateOrderedCheckLists ==
    routed.op \in {"add_check", "remove_check"}
        => /\ Other(Checkers, routed.call_once) = Other(routed.before, routed.call_once)
           /\ routed.exc = ""
           /\ routed.op = "add_check"
                  => Selected(Checkers, routed.call_once)
                         = Selected(routed.before, routed.call_once) \o <<routed.func>>
           /\ routed.op = "remove_check"
                  => LET was == Selected(routed.before, routed.call_once)
                         is  == Selected(Checkers, routed.call_once)
                     IN  IF \A i \in DOMAIN was : was[i] # routed.func
                         THEN is = was
                         ELSE \E i \in DOMAIN was : /\ was[i] = routed.func
                                                    /\ is = Without(was, i)

\* C11 witness: remove_check was called with a function that is registered in
\* the other list only, next to a different function in the selected list.
C11_Witness ==
    /\ routed.op = "remove_check"
    /\ Selected(routed.before, routed.call_once) # <<>>
    /\ \A i \in DOMAIN Selected(routed.before, routed.call_once) :
           Selected(routed.before, routed.call_once)[i] # routed.func
    /\ \E i \in DOMAIN Other(routed.before, routed.call_once) :
           Other(routed.before, routed.call_once)[i] = routed.func

----------------------------------------------------------------------------
(* Properties of prefix resolution and context construction *)

\* The prefix source, fixed or computed, yields an empty collection.
EmptyCollection == command_prefix.kind = "list" /\ Len(command_prefix.v) = 0

\* C12: when the prefix source (fixed or computed) resolves to an empty
\* collection, get_prefix fails with a value error, and so does get_context
\* for every message the bot did not write itself: no context is returned and
\* no command is invoked.  A bare string, the empty string included, is
\* returned as it is and never rejected.
C12_EmptyPrefixRejected ==
    /\ (EmptyCollection /\ routed.op = "get_prefix") => routed.exc = "ValueError"
    /\ (EmptyCollection /\ routed.op = "get_context" /\ ~routed.mine)
           => (routed.exc = "ValueError" /\ ctx = None)
    /\ (EmptyCollection /\ routed.op = "invoke")
           => (~routed.invoked /\ routed.events = <<>>)
    /\ (command_prefix.kind = "str" /\ routed.op = "get_prefix")
           => (routed.exc = "" /\ routed.kind = "str" /\ routed.prefix = command_prefix.v)

\* C12 witness: a prefix function returned an empty list and get_context of
\* a non-empty message of somebody else has raised.
C12_Witness ==
    /\ routed.op = "get_context"
    /\ command_prefix.callable /\ EmptyCollection
    /\ ~routed.mine /\ routed.content # <<>> /\ routed.exc = "ValueError"

\* s begins with p, stated on its own
Begins(s, p) == Len(p) <= Len(s) /\ \A i \in 1..Len(p) : s[i] = p[i]

\* s from position i on
From(s, i) == [j \in 1..(Len(s) - i + 1) |-> s[j + i - 1]]

\* The number of leading spaces of s
Blanks(s) == Cardinality({n \in 1..Len(s) : \A i \in 1..n : s[i] = " "})

\* w is the first word of s: the characters of s up to its first space
FirstWord(s, w) ==
    /\ Begins(s, w)
    /\ \A i \in 1..Len(w) : w[i] # " "
    /\ Len(w) < Len(s) => s[Len(w) + 1] = " "

\* What follows the prefix pre in the content, leading spaces dropped when
\* strip_after_prefix is set
AfterPrefix(content, pre) ==
    IF strip_after_prefix
    THEN From(From(content, Len(pre) + 1), Blanks(From(content, Len(pre) + 1)) + 1)
    ELSE From(content, Len(pre) + 1)

\* get_context has returned for a message of somebody else while the prefix
\* source yields a collection.
SeveralPrefixes ==
    /\ routed.op = "get_context" /\ ~routed.mine /\ routed.exc = ""
    /\ command_prefix.kind = "list"

\* C13: with several prefixes, the prefix recorded on the context and
\* stripped from the message is the first entry in source order that the
\* content starts with, even when a later entry is a longer match: for
\* <<"!", "!!">> and "!!p" the prefix is "!" and the invoker token "!p".  No
\* entry after an empty-string entry is ever selected.
C13_FirstMatchingPrefixWins ==
    SeveralPrefixes
        => \A c \in ctx :
             /\ \A i \in DOMAIN command_prefix.v :
                   (/\ Begins(routed.content, command_prefix.v[i])
                    /\ \A j \in 1..(i - 1) : ~Begins(routed.content, command_prefix.v[j]))
                       => /\ c.prefix = Some(command_prefix.v[i])
                          /\ \A w \in c.invoked_with :
                                FirstWord(AfterPrefix(routed.content, command_prefix.v[i]), w)
                          /\ c.invoked_with # None
             /\ (command_prefix.v = << <<"!">>, <<"!", "!">> >> /\ routed.content = <<"!", "!", "p">>)
                   => (c.prefix = Some(<<"!">>) /\ c.invoked_with = Some(<<"!", "p">>))
             /\ \A i \in DOMAIN command_prefix.v :
                   command_prefix.v[i] = <<>>
                       => \E j \in 1..i : c.prefix = Some(command_prefix.v[j])

\* C13 witness: "!!p" was received with the prefixes "!" and "!!", in that
\* order, and the context records the shorter one.
C13_Witness ==
    /\ SeveralPrefixes
    /\ command_prefix.v = << <<"!">>, <<"!", "!">> >>
    /\ routed.content = <<"!", "!", "p">>
    /\ \E c \in ctx : c.prefix = Some(<<"!">>)

\* C14: for a message whose author is the bot itself, get_context returns a
\* context with prefix unset and command unset, whatever the content is,
\* without resolving the prefix source (no prefix function is called);
\* invoke on that context dispatches nothing.
C14_OwnMessagesAreInvalid ==
    /\ (routed.op = "get_context" /\ routed.mine)
           => /\ routed.exc = ""
              /\ \E c \in ctx : c.mine /\ c.prefix = None /\ c.command = None
              /\ ~routed.resolved /\ ~routed.called
    /\ (routed.op = "invoke" /\ \E c \in ctx : c.mine)
           => (routed.events = <<>> /\ ~routed.invoked /\ routed.exc = "")

\* C14 witness: the bot's own message "!p" was received while the prefix is
\* computed and "!p" names a command.
C14_Witness ==
    /\ routed.op = "get_context" /\ routed.mine
    /\ routed.content = <<"!", "p">>
    /\ command_prefix = MkPrefix(TRUE, "str", <<"!">>)
    /\ <<"p">> \in DOMAIN all_commands

\* The content begins with the single prefix, or with an entry of the
\* collection, the prefix source yields.
BeginsWithPrefix(content) ==
    IF command_prefix.kind = "str" THEN Begins(content, command_prefix.v)
    ELSE \E i \in DOMAIN command_prefix.v : Begins(content, command_prefix.v[i])

\* get_context has returned for a message of somebody else.
ContextBuilt == routed.op = "get_context" /\ ~routed.mine /\ routed.exc = ""

\* C15: if the content starts neither with the single resolved prefix nor
\* with any entry of the resolved collection, get_context returns a context
\* with prefix unset, command unset and no invoker token, and invoke on such
\* a context dispatches no event at all.  A message that consists of the
\* prefix only resolves no command and has an empty token, and invoke
\* dispatches nothing for it either.
C15_NoPrefixNoDispatch ==
    /\ (ContextBuilt /\ ~BeginsWithPrefix(routed.content))
           => \E c \in ctx : c.prefix = None /\ c.command = None /\ c.invoked_with = None
    /\ ContextBuilt
           => \A c \in ctx : c.prefix = Some(routed.content)
                                 => (c.command = None /\ c.invoked_with = Some(<<>>))
    /\ routed.op = "invoke"
           => \A c \in ctx : (c.command = None /\ c.invoked_with \in {None, Some(<<>>)})
                                 => (routed.events = <<>> /\ routed.exc = "" /\ ~routed.invoked)

\* C15 witness: invoke was called with the context of a message of somebody
\* else that did not start with a prefix.
C15_Witness ==
    /\ routed.op = "invoke"
    /\ \E c \in ctx : ~c.mine /\ c.prefix = None /\ c.command = None /\ c.invoked_with = None
    /\ routed.events = <<>>

----------------------------------------------------------------------------
(* Properties of invoke *)

\* The events of the last invoke named name
Dispatched(name) == {i \in DOMAIN routed.events : routed.events[i].event = name}

\* C16: when the invoker token names no command of the root tree,
\* get_context leaves the command unset but records the matched prefix and
\* the token, and invoke on that context dispatches exactly one command-error
\* event, carrying CommandNotFound, and neither a command-started nor a
\* command-completion event.
C16_UnknownCommandIsNotFound ==
    /\ (ContextBuilt /\ BeginsWithPrefix(routed.content))
           => \A c \in ctx :
                 /\ c.prefix # None /\ c.invoked_with # None
                 /\ \A w \in c.invoked_with :
                       /\ w \notin DOMAIN all_commands => c.command = None
                       /\ w \in DOMAIN all_commands => c.command = Some(all_commands[w])
    /\ routed.op = "invoke"
           => \A c \in ctx :
                 (c.command = None /\ c.invoked_with \notin {None, Some(<<>>)})
                     => /\ routed.events = <<Event("command_error", "CommandNotFound")>>
                        /\ routed.exc = "" /\ ~routed.invoked

\* C16 witness: "!!p" under the prefixes "!" and "!!" gave the token "!p",
\* which names no command, and invoke has dispatched CommandNotFound.
C16_Witness ==
    /\ routed.op = "invoke"
    /\ \E c \in ctx : /\ c.prefix = Some(<<"!">>) /\ c.invoked_with = Some(<<"!", "p">>)
                      /\ c.command = None
    /\ Cardinality(Dispatched("command_error")) = 1

\* invoke was called on a context whose command is resolved and admits the
\* context's invocation type.
Resolved(c) ==
    /\ routed.op = "invoke"
    /\ c.command # None
    /\ \A command \in c.command : c.command_type \in TypesOf(command)

\* The call-once checks up to and including the first that does not return
\* true have been called, in order.
FirstNot(l) == {i \in DOMAIN l : l[i] # "yes" /\ \A j \in 1..(i - 1) : l[j] = "yes"}

\* Every call-once check is called and returns true.
ChecksPass == \A i \in DOMAIN _check_once : _check_once[i] = "yes"

\* A call-once check is called and returns false.
CheckFails == \E i \in FirstNot(_check_once) : _check_once[i] = "no"

\* A call-once check is called and raises what Raises gives for it.
CheckRaises(exc) == \E i \in FirstNot(_check_once) : Raises(_check_once[i]) = exc /\ exc # ""

\* Error routing: the command's dispatch_error was called or a command-error
\* event dispatched.
ErrorRouted == Dispatched("dispatch_error") \cup Dispatched("command_error")

\* C17: for every invoke on a context with a resolved command the
\* command-started event is emitted exactly once, whether the call-once checks
\* pass and the command completes, the call-once checks fail, or the command
\* raises a command error; and it is emitted before any error routing or
\* command-completion event of that invocation.
C17_CommandStartedExactlyOnce ==
    \A c \in ctx :
        (/\ Resolved(c)
         /\ \/ ChecksPass /\ routed.outcome \in {"", "CommandError"}
            \/ CheckFails)
            => /\ Cardinality(Dispatched("command")) = 1
               /\ \A i \in Dispatched("command"), j \in DOMAIN routed.events :
                      routed.events[j].event # "command" => i < j

C19_CompletionOrErrorRouting ==
    \A c \in ctx :
        Resolved(c)
            => /\ Dispatched("command_completion") # {}
                      <=> (ChecksPass /\ routed.outcome = "")
               /\ ~(Dispatched("command_completion") # {} /\ ErrorRouted # {})
               /\ routed.exc = ""
                      => Cardinality(Dispatched("command_completion") \cup ErrorRouted) = 1

\* C20: a failure that is no command error, whatever its kind, raised by a
\* call-once check or by the command's pipeline during invoke propagates to
\* the caller of invoke: it is neither routed to the error hooks nor
\* discarded.
C20_FaultsPropagate ==
    \A c \in ctx :
        Resolved(c)
            => \A exc \in {"TypeError", "Fault"} :
                   (CheckRaises(exc) \/ (ChecksPass /\ routed.outcome = exc))
                       => (routed.exc = exc /\ ErrorRouted = {})

----------------------------------------------------------------------------
(* Properties of error routing *)

\* positions of the log of the last invoke where `name` ran
Logged(name) == {i \in DOMAIN handled.log : handled.log[i].event = name}

\* the last invoke routed an error: it called dispatch_error or dispatched
\* the command-error event itself
RoutedAnError ==
    \E i \in DOMAIN handled.events : handled.events[i].event \in {"dispatch_error", "command_error"}

\* C21: when the handler of a command raises a command error, the command
\* defines an error hook and its cog defines one too, the command's hook runs
\* (once, with that error), the cog's hook does not run and the default
\* handler reports nothing.
C21_CommandHookHasPriority ==
    (/\ handled.op = "invoke"
     /\ handled.invoked
     /\ handled.outcome \in CommandErrors
     /\ handled.command = "hook"
     /\ handled.cog = "hook")
        => /\ Cardinality(Logged("command_hook")) = 1
           /\ \A i \in Logged("command_hook") : handled.log[i].error = handled.outcome
           /\ Logged("cog_hook") = {}
           /\ Logged("print") = {}

\* the case of C21 with no listener of the command-error event registered
C21_Witness ==
    /\ handled.op = "invoke"
    /\ handled.invoked
    /\ handled.outcome = "CommandError"
    /\ handled.command = "hook"
    /\ handled.cog = "hook"
    /\ Logged("command_hook") # {}
    /\ Logged("listener") = {}
    /\ DOMAIN handled.table = {}

\* a listener was registered for the command-error event when the last
\* invoke was called
ListenerRegistered ==
    \E name \in DOMAIN handled.table :
        name = "on_command_error" /\ \E i \in DOMAIN handled.table[name] : TRUE

\* C22: when an invoke routes an error, the default handler reports it if and
\* only if no listener is registered for the command-error event, the
\* context's command (if any) has no error hook and the command's cog (if any)
\* has none; it reports at most once, and nothing when no error is routed.  An
\* event whose listeners were all removed counts as having no listener.
C22_DefaultHandlerReports ==
    handled.op = "invoke"
        => /\ Cardinality(Logged("print")) <= 1
           /\ Logged("print") # {}
                <=> /\ RoutedAnError
                    /\ ~ListenerRegistered
                    /\ handled.command # "hook"
                    /\ handled.cog # "hook"

\* the default handler reports although the table still has an entry for the
\* command-error event: its listeners were all removed
C22_Witness ==
    /\ handled.op = "invoke"
    /\ "on_command_error" \in DOMAIN handled.table
    /\ handled.table["on_command_error"] = <<>>
    /\ handled.command = "plain"
    /\ handled.cog = "plain"
    /\ Logged("print") # {}

----------------------------------------------------------------------------
(* Properties of nested invocation *)

\* l is an initial part of m
InitialPart(l, m) == Len(l) <= Len(m) /\ \A i \in DOMAIN l : l[i] = m[i]

\* C23: in one invoke, whatever the number of tree levels the command
\* resolves through, the call-once step evaluates the call-once checks only,
\* in order and each at most once (as often as it is registered), and not
\* once per level: every level evaluates the regular global checks, which the
\* call-once step does not evaluate.
C23_CheckOnceSingleEvaluation ==
    nested.op = "invoke"
        => /\ InitialPart(nested.once, _check_once)
           /\ Len(nested.checked) <= nested.levels
           /\ \A i \in DOMAIN nested.checked : InitialPart(nested.checked[i], _checks)

\* an invoke through two levels with one call-once check and two global
\* checks: the call-once check ran once, the global checks once per level
C23_Witness ==
    /\ nested.op = "invoke"
    /\ nested.levels = 2
    /\ _check_once = <<"yes">>
    /\ _checks = <<"yes", "yes">>
    /\ nested.once = <<"yes">>
    /\ nested.checked = <<<<"yes", "yes">>, <<"yes", "yes">>>>

----------------------------------------------------------------------------
(* Properties of the interaction path *)

\* the names of the last payload, root first
Path == <<interaction.root>> \o interaction.chain

\* The node reached from a table by following the names path[i], path[i+1],
\* ...: none if a name is in no table or a command that is no group has
\* records nested under it.
RECURSIVE NodeAt(_, _, _)
NodeAt(table, path, i) ==
    IF path[i] \notin DOMAIN table THEN None
    ELSE IF i = Len(path) THEN Some(table[path[i]])
    ELSE IF ~table[path[i]].group THEN None
    ELSE NodeAt(table[path[i]].all_commands, path, i + 1)

\* the argument records of the last payload
GivenArguments == IF interaction.args = None THEN <<>> ELSE CHOOSE x \in interaction.args : TRUE

\* The payload fits the tree: its names lead to a node, its options array is
\* not empty, and a root that is a group is not given arguments of its own.
Fitting ==
    /\ NodeAt(all_commands, Path, 1) # None
    /\ interaction.args # Some(<<>>)
    /\ \A n \in NodeAt(all_commands, Path, 1) :
           (n.group /\ interaction.chain = <<>>) => GivenArguments = <<>>

\* C24: for a payload that names a root command and then 0, 1 or 2 nested
\* sub-command (group) records fitting the tree, get_interaction_context
\* returns a context whose command is the node reached by following the
\* names, whose invoker name is the last name and whose arguments are the
\* records under the last record (none if it has none); without nesting the
\* command is the root and the arguments are the top-level options.
C24_InteractionResolvesAlongTheTree ==
    (interaction.op = "get_interaction_context" /\ Len(interaction.chain) <= 2 /\ Fitting)
        => /\ interaction.exc = ""
           /\ \E c \in interaction.ctx :
                  /\ Some(c.command) = NodeAt(all_commands, Path, 1)
                  /\ c.invoked_with = Path[Len(Path)]
                  /\ c.options = GivenArguments

\* the sub-command "s" of the group "g" of "r", invoked with two arguments
C24_Witness ==
    /\ interaction.op = "get_interaction_context"
    /\ Path = <<"r", "g", "s">>
    /\ Len(GivenArguments) = 2
    /\ \E c \in interaction.ctx : c.command.id = 5 /\ c.options = GivenArguments

\* C25: when a name of the payload is in no table of the tree, or records
\* are nested under a command that is no group, get_interaction_context
\* raises a lookup failure (KeyError or IndexError) and returns no context.
C25_MisfitIsLookupFailure ==
    (interaction.op = "get_interaction_context" /\ NodeAt(all_commands, Path, 1) = None)
        => /\ interaction.exc \in {"KeyError", "IndexError"}
           /\ interaction.ctx = None

\* C26: the invoked parents of the context are the names descended through,
\* root first and each once, without the name of the resolved command; they
\* are empty when nothing is nested.
C26_InvokedParentsExcludeLeaf ==
    (interaction.op = "get_interaction_context" /\ Len(interaction.chain) <= 2 /\ Fitting)
        => \A c \in interaction.ctx :
               c.invoked_parents = [i \in 1..(Len(Path) - 1) |-> Path[i]]

----------------------------------------------------------------------------
(* Properties of schema conversion *)

Returned(fn) == schema.op = "return" /\ schema.fn = fn

\* the values of the Literal the annotation is, or wraps as Optional[...]:
\* none if it is neither
LiteralValues(annotation) ==
    IF annotation.origin = "Literal" THEN Some(annotation.args)
    ELSE IF annotation.origin = "Union" /\ Len(annotation.args) = 2
            /\ \E k \in {1, 2} : annotation.args[k].origin = "Literal" /\ annotation.args[3 - k] = NoneType
    THEN {annotation.args[k].args : k \in {j \in {1, 2} : annotation.args[j].origin = "Literal"}}
    ELSE None

\* the text of the literal values of the model, as written
Written(value) ==
    IF value.kind = "str" THEN value.text
    ELSE IF value = IntValue(1) THEN <<"1">>
    ELSE IF value = IntValue(10) THEN <<"1", "0">>
    ELSE IF value = FloatValue(1, 5) THEN <<"1", ".", "5">>
    ELSE <<"?">>

WireOfKind(kind) == IF kind = "str" THEN 3 ELSE IF kind = "int" THEN 4 ELSE 10

\* C27: a parameter annotated with a Literal whose values are all strings,
\* all integers or all floats, bare or wrapped in Optional, converts to the
\* wire type of the values (3, 4, 10) and one choice per value, in the order
\* declared, named by the value's text and valued by the value itself.
C27_LiteralMapping ==
    Returned("_convert_param")
        => \A l \in LiteralValues(schema.annotation) :
               (\A k \in DOMAIN l : l[k].kind = l[1].kind)
                   => /\ schema.exc = ""
                      /\ schema.type = WireOfKind(l[1].kind)
                      /\ schema.choices = Some([k \in DOMAIN l |-> [name |-> Written(l[k]), value |-> l[k]]])

\* Optional[Literal["a", "b", "c"]] gave type 3 and the choices a, b, c
C27_Witness ==
    /\ Returned("_convert_param")
    /\ schema.annotation = UnionOf(<<LiteralOf(<<StrValue(<<"a">>), StrValue(<<"b">>), StrValue(<<"c">>)>>), NoneType>>)
    /\ schema.type = 3
    /\ \E c \in schema.choices :
           /\ Len(c) = 3
           /\ c[1].name = <<"a">> /\ c[2].name = <<"b">> /\ c[3].name = <<"c">>
           /\ c[1].value = StrValue(<<"a">>)

\* the wire type the mapping table gives a plain type
Wire(type) ==
    CASE type = "str" -> 3
      [] type = "int" -> 4
      [] type = "bool" -> 5
      [] type \in {"User", "Member"} -> 6
      [] type \in {"TextChannel", "VoiceChannel", "CategoryChannel", "Thread", "StageChannel"} -> 7
      [] type = "Role" -> 8
      [] type = "float" -> 10
      [] OTHER -> 3

\* the wire types of the members of a union of plain types, NoneType left out
MemberWires(annotation) ==
    {Wire(annotation.args[k].type) : k \in {j \in DOMAIN annotation.args : annotation.args[j] # NoneType}}

PlainUnion(annotation) ==
    annotation.origin = "Union" /\ \A k \in DOMAIN annotation.args : annotation.args[k].origin = ""

\* C28: a plain annotation maps by the table (str 3, int 4, bool 5, user 6,
\* channel 7, role 8, float 10, anything else 3); a union of plain types,
\* its None member ignored, maps to the common wire type of its members if
\* there is one, else to 9 if all are among 6, 7, 8, else to 10 if all are
\* among 4, 10, else to 3; no choices either way.
C28_TypeMappingAndUnionMerge ==
    Returned("_convert_param")
        => /\ schema.annotation.origin = ""
                => (schema.exc = "" /\ schema.choices = None /\ schema.type = Wire(schema.annotation.type))
           /\ PlainUnion(schema.annotation)
                => /\ schema.exc = ""
                   /\ schema.choices = None
                   /\ schema.type =
                        IF Cardinality(MemberWires(schema.annotation)) = 1
                        THEN CHOOSE w \in MemberWires(schema.annotation) : TRUE
                        ELSE IF MemberWires(schema.annotation) \subseteq {6, 7, 8} THEN 9
                        ELSE IF MemberWires(schema.annotation) \subseteq {4, 10} THEN 10
                        ELSE 3

\* Union[User, Role, None] gave the mentionable type 9
C28_Witness ==
    /\ Returned("_convert_param")
    /\ schema.annotation = UnionOf(<<Plain("User"), Plain("Role"), NoneType>>)
    /\ schema.type = 9

\* the number of parameters a callback has before the declared options:
\* self for a command of a cog, and ctx
Leading(command) == IF command.cog # NoCog THEN 2 ELSE 1

\* C29: for a command that is no group, each parameter after self (present
\* when the command belongs to a cog) and ctx gives exactly one option, in
\* the order declared, under the parameter's name; self and ctx give none;
\* "required" is set exactly when the parameter has no default; an
\* unannotated parameter has type 3; a parameter without description text
\* has the placeholder description.  A callback with fewer parameters than
\* self and ctx is rejected with ClientException.
C29_OneOptionPerParameter ==
    (Returned("_convert_options") /\ ~schema.command.group)
        => IF Len(schema.command.params) < Leading(schema.command)
           THEN schema.exc = "ClientException"
           ELSE /\ schema.exc = ""
                /\ Len(schema.options) = Len(schema.command.params) - Leading(schema.command)
                /\ \A k \in DOMAIN schema.options :
                       /\ schema.options[k].name = schema.command.params[k + Leading(schema.command)].name
                       /\ schema.options[k].name \notin {"self", "ctx"}
                       /\ ("required" \in DOMAIN schema.options[k])
                            <=> schema.command.params[k + Leading(schema.command)].default = "empty"
                       /\ "required" \in DOMAIN schema.options[k] => schema.options[k].required
                       /\ schema.command.params[k + Leading(schema.command)].annotation = Empty
                            => schema.options[k].type = 3
                       /\ schema.options[k].description =
                            IF \E n \in DOMAIN schema.command.descriptions : n = schema.options[k].name
                            THEN schema.command.descriptions[schema.options[k].name]
                            ELSE "No description provided"

\* a command of a cog with two declared parameters: the first unannotated,
\* without default and without description, the second with a default and
\* a description
C29_Witness ==
    /\ Returned("_convert_options")
    /\ ~schema.command.group
    /\ schema.command.cog = "X"
    /\ Len(schema.command.params) = 4
    /\ schema.command.params[3].annotation = Empty
    /\ schema.command.params[3].default = "empty"
    /\ schema.command.params[4].default = "given"
    /\ DOMAIN schema.command.descriptions = {"b"}
    /\ Len(schema.options) = 2
    /\ schema.options[1] = [type |-> 3, name |-> "a", description |-> "No description provided",
                            required |-> TRUE]
    /\ "required" \notin DOMAIN schema.options[2]
    /\ schema.options[2].description = "about"

\* no two options of the list have the same name
UniqueNames(options) ==
    \A k, l \in DOMAIN options : options[k].name = options[l].name => k = l

\* C30: comparing two option trees gives the same result whichever of the
\* two is passed as current and whichever as new, nested option lists
\* included.  Stated for trees whose sibling names are unique, as the names
\* of the options of a published command are.
C30_DiffIsSymmetric ==
    (Returned("_check_options") /\ UniqueNames(schema.current) /\ UniqueNames(schema.new))
        => schema.result = _check_options(schema.new, schema.current)

\* two choice lists equal by name and value, both ways
SameChoices(c, d) ==
    /\ \A k \in DOMAIN c : \E l \in DOMAIN d : c[k].name = d[l].name /\ c[k].value = d[l].value
    /\ \A l \in DOMAIN d : \E k \in DOMAIN c : c[k].name = d[l].name /\ c[k].value = d[l].value

\* The exact two-way match of two option lists: each option of either list
\* has an option in the other with the same name, description and default
\* permission, the same choices, and nested options that match the same way.
RECURSIVE ExactMatch(_, _)
Counterpart(o, p) ==
    /\ o.name = p.name
    /\ o.description = p.description
    /\ DefaultPermissionsIn(o) = DefaultPermissionsIn(p)
    /\ SameChoices(ChoicesIn(o), ChoicesIn(p))
    /\ ExactMatch(OptionsIn(o), OptionsIn(p))

ExactMatch(current, new) ==
    IF current = <<>> \/ new = <<>> THEN current = new
    ELSE /\ \A j \in DOMAIN current : \E i \in DOMAIN new : Counterpart(current[j], new[i])
         /\ \A i \in DOMAIN new : \E j \in DOMAIN current : Counterpart(current[j], new[i])

\* C31: two option lists are reported equivalent when both are empty, never
\* when exactly one is empty, and otherwise only if they match exactly both
\* ways: lists that differ in an option's name, description or choices at
\* any nesting level are never reported equivalent.  Stated for lists whose
\* sibling names are unique.
C31_EquivalenceIsExactMatch ==
    (Returned("_check_options") /\ UniqueNames(schema.current) /\ UniqueNames(schema.new))
        => /\ (schema.current = <<>> /\ schema.new = <<>>) => schema.result
           /\ ((schema.current = <<>>) # (schema.new = <<>>)) => ~schema.result
           /\ schema.result => ExactMatch(schema.current, schema.new)

\* C32: the option list the converter gives for a command, compared with
\* itself, is reported equivalent: with or without nested options, with or
\* without choices.
C32_UnchangedTreeIsNoOp ==
    Returned("republish") => schema.result

\* the group "q" published again: a sub-command whose first option has
\* choices, and a sub-command without options
C32_Witness ==
    /\ Returned("republish")
    /\ schema.command.name = "q"
    /\ Len(schema.options) = 2
    /\ "options" \in DOMAIN schema.options[1]
    /\ "choices" \in DOMAIN schema.options[1].options[1]
    /\ "options" \notin DOMAIN schema.options[2]
    /\ schema.result

\* the teardown calls of the module object in the log of the last call
TeardownsOf(lib) == {k \in DOMAIN calls : calls[k].fn = "teardown" /\ calls[k].id = lib.id}

\* C33: close unloads every registered extension (the teardown of each one
\* that has a teardown is called once, whether or not another teardown has
\* raised, and nothing the extension declared is left), removes every cog
\* that remains, and then reaches the client's close: the extension
\* registry and the cog set are empty by then and afterwards.
C33_CloseUnloadsEverything ==
    last.op = "close"
        => /\ \A lib \in last.lib :
                  /\ Cardinality(TeardownsOf(lib)) = (IF lib.src.teardown = "none" THEN 0 ELSE 1)
                  /\ Owned(Bot, lib.name) = NoneOwned
           /\ calls # <<>>
           /\ calls[Len(calls)] = [fn |-> "Client.close", extensions |-> {}, cogs |-> {}]
           /\ \A k \in 1..(Len(calls) - 1) : calls[k].fn = "teardown"
           /\ extensions = EmptyDict
           /\ cogs = EmptyDict

\* two extensions were registered and a cog the application added itself;
\* the teardown called first raised, the other one was called after it
C33_Witness ==
    /\ last.op = "close"
    /\ Cardinality(last.lib) = 2
    /\ \E cog \in last.old : cog.module = MOD_MAIN
    /\ Len(calls) = 3
    /\ calls[1].fn = "teardown" /\ calls[1].raised
    /\ calls[2].fn = "teardown" /\ ~calls[2].raised
    /\ calls[3].fn = "Client.close"
    /\ extensions = EmptyDict
    /\ cogs = EmptyDict

\* the listeners of the list that `name` and its dotted sub-modules did not
\* declare, in the order of the list
OthersOf(l, name) == SelectSeq(l, LAMBDA x : ~IsDottedSub(name, x.module))

\* The cogs and commands of the tables b, under their names, and the
\* listeners of every event, in order, that neither `name` nor one of its
\* dotted sub-modules declared.
UnattributedIn(b, name) ==
    [cogs |-> [cn \in {x \in DOMAIN b.cogs : ~IsDottedSub(name, b.cogs[x].module)} |-> b.cogs[cn]],
     cmds |-> [c \in {x \in DOMAIN b.all_commands : ~IsDottedSub(name, b.all_commands[x].module)}
                  |-> b.all_commands[c]],
     lsn  |-> [e \in {x \in DOMAIN b.extra_events : OthersOf(b.extra_events[x], name) # <<>>}
                  |-> OthersOf(b.extra_events[e], name)]]

RECURSIVE NoContainer(_)
NoContainer(options) ==
    \A k \in DOMAIN options :
        options[k].type \notin {1, 2} /\ NoContainer(OptionsIn(options[k]))

\* an options list that is present is not empty, at any depth
RECURSIVE NoEmptyList(_)
NoEmptyList(options) ==
    \A k \in DOMAIN options :
        "options" \in DOMAIN options[k]
            => options[k].options # <<>> /\ NoEmptyList(options[k].options)

\* the names of the children of a group that can be invoked other than by
\* text, in the order of the children
Invocable(commands) == SelectSeq(commands, LAMBDA com : com.type # {"default"})

NamesOf(l) == [k \in DOMAIN l |-> l[k].name]

\* the options of a group are its invocable children, one each
ChildrenEmitted(options, commands) == NamesOf(options) = NamesOf(Invocable(commands))

\* C35: in the option list derived for a top-level command a sub-command
\* group (type 2) stands only directly under the command, a sub-command
\* (type 1) holds no option of type 1 or 2 at any depth, the children that
\* are text-only are left out and the others are all there, and an option
\* without options of its own has no options list.
C35_RemoteNestingLimit ==
    (Returned("_convert_options") /\ schema.exc = "")
        => /\ \A k \in DOMAIN schema.options :
                  /\ schema.options[k].type = 1 => NoContainer(OptionsIn(schema.options[k]))
                  /\ schema.options[k].type = 2
                        => \A l \in DOMAIN OptionsIn(schema.options[k]) :
                               /\ schema.options[k].options[l].type = 1
                               /\ NoContainer(OptionsIn(schema.options[k].options[l]))
           /\ NoEmptyList(schema.options)
           /\ schema.command.group
                 => /\ ChildrenEmitted(schema.options, schema.command.commands)
                    /\ \A k \in DOMAIN schema.options :
                           /\ schema.options[k].type \in {1, 2}
                           /\ schema.options[k].type = 2
                                 => ChildrenEmitted(OptionsIn(schema.options[k]),
                                                    Invocable(schema.command.commands)[k].commands)

\* the group "r": its text-only child "t" is left out; its group "g" is a
\* sub-command group holding "u", without options list, and its own group
\* "h" as a sub-command with the parameter of h's callback
C35_Witness ==
    /\ Returned("_convert_options")
    /\ schema.command.name = "r"
    /\ NamesOf(schema.options) = <<"s", "g">>
    /\ schema.options[2].type = 2
    /\ NamesOf(schema.options[2].options) = <<"u", "h">>
    /\ "options" \notin DOMAIN schema.options[2].options[1]
    /\ schema.options[2].options[2].type = 1
    /\ NamesOf(schema.options[2].options[2].options) = <<"b">>

\* invoke was called on a context whose command is resolved and does not
\* admit the context's invocation type.
Mistyped(c) ==
    /\ routed.op = "invoke"
    /\ c.command # None
    /\ \A command \in c.command : c.command_type \notin TypesOf(command)

\* C36: when the invocation type of the context is not among the invocation
\* types of the resolved command, invoke does not enter the command's
\* pipeline, calls no check, and dispatches no event: no command-started, no
\* error routing, no command-completion.
C36_TypeMismatchDispatchesNothing ==
    \A c \in ctx :
        Mistyped(c)
            => /\ ~routed.invoked
               /\ routed.evaluated = <<>>
               /\ routed.events = <<>>

\* the message "!pp" names the command "pp", which is a slash command only;
\* a call-once check is registered and the pipeline would have returned
C36_Witness ==
    /\ \E c \in ctx : Mistyped(c) /\ c.command_type = "default"
                      /\ c.invoked_with = Some(CMD_PP)
    /\ _check_once # <<>>
    /\ routed.outcome = ""
    /\ routed.exc = ""

\* what the setup of the module registered is in the tables: its listener,
\* its cog with the cog's command and listener, and its command
ArtifactsPresent(lib) ==
    /\ \E e \in DOMAIN extra_events : \E i \in DOMAIN extra_events[e] :
           extra_events[e][i] = LibListener(lib)
    /\ \E cn \in DOMAIN cogs : cogs[cn] = LibCog(lib)
    /\ \E c \in DOMAIN all_commands : all_commands[c] = CogCommand(LibCog(lib))
    /\ \E e \in DOMAIN extra_events : \E i \in DOMAIN extra_events[e] :
           extra_events[e][i] = CogListener(LibCog(lib))
    /\ \E c \in DOMAIN all_commands : all_commands[c] = LibCommand(lib)

\* C37: whatever load, unload and reload calls have been made, every name of
\* the extension registry has its module in the module cache and what its
\* setup registered in the cog set, the command tree and the listener
\* table, also when one registered name is a dotted sub-module of another.
C37_RegistryIsConsistent ==
    \A name \in DOMAIN extensions :
        /\ name \in DOMAIN sys_modules
        /\ ArtifactsPresent(extensions[name])

\* load_extension has called the setup of the module it created, and setup
\* has raised.
SetupRaised ==
    /\ last.op = "load"
    /\ calls # <<>>
    /\ calls[1].fn = "setup"
    /\ calls[1].raised

\* C38: when setup raises during load_extension, the teardown of the module,
\* if it defines one, is called exactly once, and nothing else is; it is
\* called when no cog, command or listener of the module is left in the bot
\* and the module is neither cached under its name nor registered; whether
\* or not teardown raises, load_extension raises ExtensionFailed.
C38_TeardownAfterFailedSetup ==
    SetupRaised
        => /\ last.exc = "ExtensionFailed"
           /\ Len(calls) = (IF last.src.teardown = "none" THEN 1 ELSE 2)
           /\ \A k \in 2..Len(calls) :
                  /\ calls[k].fn = "teardown"
                  /\ calls[k].id = calls[1].id
                  /\ calls[k].raised = (last.src.teardown = "raises")
                  /\ calls[k].seen.owned = NoneOwned
                  /\ ~calls[k].seen.registered
                  /\ last.name \notin calls[k].seen.cached

\* setup registered a listener and a cog before it raised, and the teardown
\* called afterwards raised as well
C38_Witness ==
    /\ SetupRaised
    /\ last.src.setup = "raises"
    /\ calls[1].made.lsn # {} /\ calls[1].made.cogs # {}
    /\ Len(calls) = 2
    /\ calls[2].fn = "teardown" /\ calls[2].raised
    /\ calls[2].seen.owned = NoneOwned
    /\ last.exc = "ExtensionFailed"

====
